---- MODULE Spec2Model ----
(***************************************************************************)
(* A model of emdiro: the command chain (src/src/command.rs), its          *)
(* persisted JSON form, its playback (`run`), its interactive recording    *)
(* (`record`) and its export (`print`), together with the collaborators    *)
(* it drives (grim, slurp, ydotool, ydotoold, typst).                      *)
(*                                                                         *)
(* Representation notes.                                                   *)
(*  - A u32 (a screen coordinate, a key code) is a pair <<hi, lo>> of      *)
(*    16-bit limbs, so that the full 32-bit range and its overflow can be  *)
(*    computed.                                                            *)
(*  - An RgbImage is [width, height, data], data the flat row-major list   *)
(*    of bytes, three per pixel.                                           *)
(*  - A byte string is a sequence of numbers 0..255; a base64 string is a  *)
(*    sequence of alphabet indices 0..63, 64 standing for the padding '='  *)
(*    and anything above for a character outside the alphabet.             *)
(*  - A PNG stream is its signature, the IHDR fields width, height, bit    *)
(*    depth and colour type, then the scanlines, each led by its filter    *)
(*    byte (compression and checksums are left out).                       *)
(*  - A JSON document is the tree serde_json parses: nodes                 *)
(*    [t |-> "obj"|"arr"|"str"|"num"|"bool", v |-> ...].                   *)
(***************************************************************************)
EXTENDS Integers, Sequences, FiniteSets, TLC

(***************************************************************************)
(* Bounds of the model.                                                    *)
(***************************************************************************)
MaxChainLen == 2
MaxRuns == 2
MaxKeys == 2

(***************************************************************************)
(* Generic helpers.                                                        *)
(***************************************************************************)
RECURSIVE Flatten(_)
Flatten(ss) == IF ss = <<>> THEN <<>> ELSE Head(ss) \o Flatten(Tail(ss))

Reverse(s) == [k \in 1..Len(s) |-> s[Len(s) + 1 - k]]

Range(s) == {s[k] : k \in 1..Len(s)}

SeqsUpTo(S, n) == UNION {[1..m -> S] : m \in 0..n}

(***************************************************************************)
(* u32 arithmetic on 16-bit limbs (main.rs: Position and Rect fields).     *)
(***************************************************************************)
U32(n) == <<n \div 65536, n % 65536>>

U32Half(a) == <<a[1] \div 2, ((a[1] % 2) * 65536 + a[2]) \div 2>>

\* a + b with the carry out of bit 31: the sum modulo 2^32 and whether it
\* overflowed.
U32Add(a, b) ==
    LET lo == a[2] + b[2]
        hi == a[1] + b[1] + lo \div 65536
    IN  [overflow |-> hi >= 65536, value |-> <<hi % 65536, lo % 65536>>]

(***************************************************************************)
(* Geometry (main.rs).                                                     *)
(***************************************************************************)
origin(rect) == [x |-> rect.x, y |-> rect.y]

\* x + width / 2 and y + height / 2 in u32.  An overflowing sum panics in a
\* build with overflow checks and wraps in a build without them.
center(rect, overflow_checks) ==
    LET cx == U32Add(rect.x, U32Half(rect.width))
        cy == U32Add(rect.y, U32Half(rect.height))
    IN  IF overflow_checks /\ (cx.overflow \/ cy.overflow)
        THEN [panic |-> TRUE, pos |-> [x |-> U32(0), y |-> U32(0)]]
        ELSE [panic |-> FALSE, pos |-> [x |-> cx.value, y |-> cy.value]]

(***************************************************************************)
(* base64, STANDARD engine (used by command.rs serde_img).                 *)
(***************************************************************************)
RECURSIVE Base64Encode(_)
Base64Encode(b) ==
    IF Len(b) = 0 THEN <<>>
    ELSE IF Len(b) = 1 THEN <<b[1] \div 4, (b[1] % 4) * 16, 64, 64>>
    ELSE IF Len(b) = 2
         THEN <<b[1] \div 4, (b[1] % 4) * 16 + b[2] \div 16, (b[2] % 16) * 4, 64>>
    ELSE <<b[1] \div 4, (b[1] % 4) * 16 + b[2] \div 16,
           (b[2] % 16) * 4 + b[3] \div 64, b[3] % 64>>
         \o Base64Encode(SubSeq(b, 4, Len(b)))

\* One group of four symbols; padding is only legal in the last group, and
\* the bits a padded group leaves unused must be zero.
Base64Quad(q, last) ==
    IF \A k \in 1..4 : q[k] < 64
    THEN [ok |-> TRUE,
          bytes |-> <<q[1] * 4 + q[2] \div 16,
                      (q[2] % 16) * 16 + q[3] \div 4,
                      (q[3] % 4) * 64 + q[4]>>]
    ELSE IF last /\ q[1] < 64 /\ q[2] < 64 /\ q[3] < 64 /\ q[4] = 64
            /\ q[3] % 4 = 0
    THEN [ok |-> TRUE,
          bytes |-> <<q[1] * 4 + q[2] \div 16, (q[2] % 16) * 16 + q[3] \div 4>>]
    ELSE IF last /\ q[1] < 64 /\ q[2] < 64 /\ q[3] = 64 /\ q[4] = 64
            /\ q[2] % 16 = 0
    THEN [ok |-> TRUE, bytes |-> <<q[1] * 4 + q[2] \div 16>>]
    ELSE [ok |-> FALSE, bytes |-> <<>>]

RECURSIVE Base64Decode(_)
Base64Decode(s) ==
    IF Len(s) = 0 THEN [ok |-> TRUE, bytes |-> <<>>]
    ELSE IF Len(s) < 4 THEN [ok |-> FALSE, bytes |-> <<>>]
    ELSE LET q == Base64Quad(SubSeq(s, 1, 4), Len(s) = 4)
             r == Base64Decode(SubSeq(s, 5, Len(s)))
         IN  IF q.ok /\ r.ok
             THEN [ok |-> TRUE, bytes |-> q.bytes \o r.bytes]
             ELSE [ok |-> FALSE, bytes |-> <<>>]

(***************************************************************************)
(* The image crate: PNG encoding of an RgbImage, decoding of a byte        *)
(* stream, and the conversion of the decoded image to RGB8.                *)
(***************************************************************************)
PngSignature == <<137, 80, 78, 71>>

\* RgbImage::write_to(.., Png): colour type 2 (RGB), 8 bits; an image with a
\* zero dimension cannot be encoded.
PngEncode(img) ==
    IF img.width = 0 \/ img.height = 0
    THEN [ok |-> FALSE, bytes |-> <<>>]
    ELSE [ok |-> TRUE,
          bytes |-> PngSignature \o <<img.width, img.height, 8, 2>>
                    \o Flatten([r \in 1..img.height |->
                          <<0>> \o SubSeq(img.data, (r - 1) * 3 * img.width + 1,
                                          r * 3 * img.width)])]

PngChannels(colour) ==
    CASE colour = 0 -> 1
      [] colour = 2 -> 3
      [] colour = 6 -> 4
      [] OTHER -> 0

\* image::load_from_memory: the format is guessed from the signature, then
\* the stream is decoded into an image of its own colour type.
load_from_memory(bytes) ==
    LET bad == [ok |-> FALSE, colour |-> 0, width |-> 0, height |-> 0, data |-> <<>>]
    IN  IF Len(bytes) < 8 \/ SubSeq(bytes, 1, 4) # PngSignature THEN bad
        ELSE LET w == bytes[5]
                 h == bytes[6]
                 n == PngChannels(bytes[8])
                 body == SubSeq(bytes, 9, Len(bytes))
             IN  IF w = 0 \/ h = 0 \/ bytes[7] # 8 \/ n = 0
                    \/ Len(body) # h * (1 + n * w)
                    \/ \E r \in 1..h : body[(r - 1) * (1 + n * w) + 1] # 0
                 THEN bad
                 ELSE [ok |-> TRUE, colour |-> bytes[8], width |-> w, height |-> h,
                       data |-> Flatten([r \in 1..h |->
                                   SubSeq(body, (r - 1) * (1 + n * w) + 2,
                                          r * (1 + n * w))])]

\* DynamicImage::to_rgb8: grey is replicated into the three channels, the
\* alpha channel is dropped.
to_rgb8(dyn) ==
    LET n == PngChannels(dyn.colour)
        px == dyn.width * dyn.height
    IN  [width |-> dyn.width, height |-> dyn.height,
         data |-> Flatten([p \in 1..px |->
                    IF n = 1
                    THEN <<dyn.data[p], dyn.data[p], dyn.data[p]>>
                    ELSE SubSeq(dyn.data, (p - 1) * n + 1, (p - 1) * n + 3)])]

(***************************************************************************)
(* Results of fallible operations: "ok" with a value, "err" (an            *)
(* anyhow/serde error propagated by `?`), or "panic" (an unwrap failed).   *)
(***************************************************************************)
Ok(v) == [res |-> "ok", v |-> v]
Err == [res |-> "err", v |-> <<>>]
Panic == [res |-> "panic", v |-> <<>>]

(***************************************************************************)
(* JSON nodes.  Every number of the persisted form is an unsigned integer  *)
(* field; it is kept as a limb pair.  An object is the sequence of its     *)
(* members <<key, value>> in document order.  A node is the pair of its    *)
(* kind and its value.  A text that is not JSON is the tree of what the    *)
(* parser reads in document order, with a node of kind "invalid" where the *)
(* syntax error is: a member <<"", invalid>> of an object that is cut off  *)
(* or goes on with something that is no member.                            *)
(***************************************************************************)
JObj(f) == <<"obj", f>>
JArr(s) == <<"arr", s>>
JStr(s) == <<"str", s>>
JNum(n) == <<"num", n>>
JBool(b) == <<"bool", b>>

Kind(node) == node[1]
Value(node) == node[2]

\* The text of the node holds no syntax error: what serde_json checks of a
\* value that it skips.
RECURSIVE Valid(_)
Valid(node) ==
    CASE Kind(node) = "arr" -> \A k \in 1..Len(Value(node)) : Valid(Value(node)[k])
      [] Kind(node) = "obj" -> \A k \in 1..Len(Value(node)) : Valid(Value(node)[k][2])
      [] OTHER -> Kind(node) # "invalid"

(***************************************************************************)
(* command.rs, mod serde_img.                                              *)
(***************************************************************************)
\* serde_img::serialize: PNG-encode (unwrap), base64, a JSON string.
serde_img_serialize(img) ==
    LET png == PngEncode(img)
    IN  IF png.ok THEN Ok(JStr(Base64Encode(png.bytes))) ELSE Panic

\* Mutant of serde_img::deserialize: the decoded image is converted to grey
\* (its first channel) instead of RGB8.
serde_img_deserialize_grey(node) ==
    IF Kind(node) # "str" THEN Err
    ELSE LET bytes == Base64Decode(Value(node))
         IN  IF ~bytes.ok THEN Err
             ELSE LET dyn == load_from_memory(bytes.bytes)
                      n == PngChannels(dyn.colour)
                  IN  IF dyn.ok
                      THEN Ok([width |-> dyn.width, height |-> dyn.height,
                               data |-> Flatten([p \in 1..(dyn.width * dyn.height) |->
                                          <<dyn.data[(p - 1) * n + 1],
                                            dyn.data[(p - 1) * n + 1],
                                            dyn.data[(p - 1) * n + 1]>>])])
                      ELSE Panic

\* serde_img::deserialize: a JSON string, base64-decoded (an error when it
\* is not base64), decoded as an image (unwrap) and converted to RGB8.
serde_img_deserialize(node) ==
    IF Kind(node) # "str" THEN Err
    ELSE LET bytes == Base64Decode(Value(node))
         IN  IF ~bytes.ok THEN Err
             ELSE LET dyn == load_from_memory(bytes.bytes)
                  IN  IF dyn.ok THEN Ok(to_rgb8(dyn)) ELSE Panic

(***************************************************************************)
(* The derived Serialize/Deserialize of Position, Rect, Command and        *)
(* CommandChain (main.rs, command.rs) and serde's own of Duration:         *)
(* externally tagged enum, structs written as objects with the fields in   *)
(* declaration order, and read from an object or from an array.            *)
(***************************************************************************)
SerPosition(p) == JObj(<<<<"x", JNum(p.x)>>, <<"y", JNum(p.y)>>>>)

SerRect(r) ==
    JObj(<<<<"x", JNum(r.x)>>, <<"y", JNum(r.y)>>,
           <<"width", JNum(r.width)>>, <<"height", JNum(r.height)>>>>)

SerDuration(d) ==
    JObj(<<<<"secs", JNum(U32(d.secs))>>, <<"nanos", JNum(U32(d.nanos))>>>>)

SerCommand(c) ==
    CASE c.type = "WaitForImage" ->
           LET img == serde_img_serialize(c.image)
           IN  IF img.res # "ok" THEN img
               ELSE Ok(JObj(<<<<"WaitForImage",
                        JObj(<<<<"location", SerRect(c.location)>>,
                               <<"image", img.v>>,
                               <<"click", JBool(c.click)>>>>)>>>>))
      [] c.type = "Sleep" ->
           Ok(JObj(<<<<"Sleep", JObj(<<<<"duration", SerDuration(c.duration)>>>>)>>>>))
      [] c.type = "Shell" ->
           Ok(JObj(<<<<"Shell", JObj(<<<<"command", JStr(c.command)>>>>)>>>>))
      [] c.type = "PressKeys" ->
           Ok(JObj(<<<<"PressKeys",
                JObj(<<<<"keys", JArr([k \in 1..Len(c.keys) |-> JNum(c.keys[k])])>>>>)>>>>))
      [] c.type = "Type" ->
           Ok(JObj(<<<<"Type", JObj(<<<<"text", JStr(c.text)>>>>)>>>>))
      [] c.type = "Click" ->
           Ok(JObj(<<<<"Click", JObj(<<<<"position", SerPosition(c.position)>>>>)>>>>))
      [] c.type = "MouseMove" ->
           Ok(JObj(<<<<"MouseMove", JObj(<<<<"position", SerPosition(c.position)>>>>)>>>>))

\* serde_json::to_writer_pretty(&chain): the commands in order; the first
\* command that cannot be serialized ends the serialization.
SerChain(commands) ==
    LET each == [k \in 1..Len(commands) |-> SerCommand(commands[k])]
    IN  IF \E k \in 1..Len(each) : each[k].res # "ok"
        THEN Panic
        ELSE Ok(JObj(<<<<"commands", JArr([k \in 1..Len(each) |-> each[k].v])>>>>))

DeSmall(node) ==
    IF Kind(node) = "num" THEN Ok(Value(node)[1] * 65536 + Value(node)[2]) ELSE Err

\* u32, bool, String and Vec<u32> read from a JSON value.
DeU32(node) == IF Kind(node) = "num" THEN Ok(Value(node)) ELSE Err

DeBool(node) == IF Kind(node) = "bool" THEN Ok(Value(node)) ELSE Err

DeString(node) == IF Kind(node) = "str" THEN Ok(Value(node)) ELSE Err

DeVecU32(node) ==
    IF Kind(node) = "arr" /\ \A k \in 1..Len(Value(node)) : Kind(Value(node)[k]) = "num"
    THEN Ok([k \in 1..Len(Value(node)) |-> Value(Value(node)[k])])
    ELSE Err

\* The index of the first result, in order, that is not "ok"; 0 when all
\* are.
FirstFailure(out) ==
    LET bad == {k \in 1..Len(out) : out[k].res # "ok"}
    IN  IF bad = {} THEN 0 ELSE CHOOSE k \in bad : \A j \in bad : k <= j

\* The members of a struct written as an array or as an object, in
\* document order: the field a member stands for (in an array the field at
\* its place in `fields`, the declaration order; in an object its key) and
\* its value.
Members(node) == IF Kind(node) \in {"arr", "obj"} THEN 1..Len(Value(node)) ELSE {}

FieldAt(node, fields, k) ==
    IF Kind(node) = "obj" THEN Value(node)[k][1]
    ELSE IF k <= Len(fields) THEN fields[k] ELSE ""

ValueAt(node, k) ==
    IF Kind(node) = "obj" THEN Value(node)[k][2] ELSE Value(node)[k]

\* serde_json's deserialize_struct with the visitor of a struct whose fields,
\* in declaration order, are `fields`; read[k] is what reading the value of
\* member k as its field gives.  An array (visit_seq) gives the fields in
\* declaration order: too few or too many elements are an error.  An object
\* (visit_map) is read member by member in document order: a member that is
\* not a field is skipped (an error when `strict`, or when its value holds a
\* syntax error), a field met a second time is an error, and a field that is
\* missing is an error once every member was read.  The first value that
\* fails decides, with its own outcome: what follows it in the text is never
\* read.
DeStruct(node, fields, strict, read) ==
    IF Kind(node) = "arr"
    THEN LET n == IF Len(Value(node)) < Len(fields) THEN Len(Value(node)) ELSE Len(fields)
             out == [k \in 1..n |-> read[k]]
             failed == FirstFailure(out)
         IN  IF failed # 0 THEN out[failed]
             ELSE IF Len(Value(node)) # Len(fields) THEN Err
             ELSE Ok([f \in Range(fields) |->
                        out[CHOOSE k \in 1..n : fields[k] = f].v])
    ELSE IF Kind(node) = "obj"
    THEN LET key(k) == Value(node)[k][1]
             out == [k \in 1..Len(Value(node)) |->
                       IF key(k) \notin Range(fields)
                       THEN IF strict \/ ~Valid(Value(node)[k][2]) THEN Err ELSE Ok(<<>>)
                       ELSE IF \E j \in 1..(k - 1) : key(j) = key(k) THEN Err
                       ELSE read[k]]
             failed == FirstFailure(out)
         IN  IF failed # 0 THEN out[failed]
             ELSE IF \E f \in Range(fields) : \A k \in 1..Len(Value(node)) : key(k) # f
             THEN Err
             ELSE Ok([f \in Range(fields) |->
                        out[CHOOSE k \in 1..Len(Value(node)) : key(k) = f].v])
    ELSE Err

DePosition(node) ==
    DeStruct(node, <<"x", "y">>, FALSE,
             [k \in Members(node) |-> DeU32(ValueAt(node, k))])

DeRect(node) ==
    DeStruct(node, <<"x", "y", "width", "height">>, FALSE,
             [k \in Members(node) |-> DeU32(ValueAt(node, k))])

\* What a visitor makes of the fields it has read: nothing when reading
\* failed; otherwise a Duration (Duration::new(secs, nanos) carries whole
\* seconds out of nanos), the command of the variant `type`, or the chain's
\* commands.
DurationOf(r) ==
    IF r.res # "ok" THEN r
    ELSE Ok([secs |-> r.v.secs + r.v.nanos \div 1000000000,
             nanos |-> r.v.nanos % 1000000000])

VariantOf(type, r) == IF r.res # "ok" THEN r ELSE Ok([type |-> type] @@ r.v)

CommandsOf(r) == IF r.res # "ok" THEN r ELSE Ok(r.v.commands)

\* serde's Deserialize of Duration: a name other than secs and nanos is an
\* error.
DeDuration(node) ==
    DurationOf(DeStruct(node, <<"secs", "nanos">>, TRUE,
                        [k \in Members(node) |-> DeSmall(ValueAt(node, k))]))

Variants == {"WaitForImage", "Sleep", "Shell", "PressKeys", "Type", "Click", "MouseMove"}

WaitForImageFields == <<"location", "image", "click">>

\* The struct variant WaitForImage { location, image, click }.
DeWaitForImage(body) ==
    VariantOf("WaitForImage",
      DeStruct(body, WaitForImageFields, FALSE,
        [k \in Members(body) |->
           CASE FieldAt(body, WaitForImageFields, k) = "location" ->
                  DeRect(ValueAt(body, k))
             [] FieldAt(body, WaitForImageFields, k) = "image" ->
                  serde_img_deserialize(ValueAt(body, k))
             [] OTHER -> DeBool(ValueAt(body, k))]))

\* The content of the struct variant `tag`.
DeVariant(tag, body) ==
    CASE tag = "WaitForImage" -> DeWaitForImage(body)
      [] tag = "Sleep" ->
           VariantOf("Sleep", DeStruct(body, <<"duration">>, FALSE,
                       [k \in Members(body) |-> DeDuration(ValueAt(body, k))]))
      [] tag = "Shell" ->
           VariantOf("Shell", DeStruct(body, <<"command">>, FALSE,
                       [k \in Members(body) |-> DeString(ValueAt(body, k))]))
      [] tag = "PressKeys" ->
           VariantOf("PressKeys", DeStruct(body, <<"keys">>, FALSE,
                       [k \in Members(body) |-> DeVecU32(ValueAt(body, k))]))
      [] tag = "Type" ->
           VariantOf("Type", DeStruct(body, <<"text">>, FALSE,
                       [k \in Members(body) |-> DeString(ValueAt(body, k))]))
      [] tag = "Click" ->
           VariantOf("Click", DeStruct(body, <<"position">>, FALSE,
                       [k \in Members(body) |-> DePosition(ValueAt(body, k))]))
      [] tag = "MouseMove" ->
           VariantOf("MouseMove", DeStruct(body, <<"position">>, FALSE,
                       [k \in Members(body) |-> DePosition(ValueAt(body, k))]))

\* The end of the enum's object: a member after the variant is an error.
EndOfEnum(r, more) == IF r.res = "ok" /\ more THEN Err ELSE r

\* The externally tagged enum: an object whose first member names the
\* variant and holds its content; the content is read before a further
\* member is seen to be an error.
DeCommand(node) ==
    IF Kind(node) # "obj" \/ Value(node) = <<>> THEN Err
    ELSE IF Value(node)[1][1] \notin Variants THEN Err
    ELSE EndOfEnum(DeVariant(Value(node)[1][1], Value(node)[1][2]),
                   Len(Value(node)) > 1)

\* Mutant of DeCommands: the commands before the first malformed one are
\* kept and the rest of the document is dropped.
RECURSIVE DeCommandsPrefix(_)
DeCommandsPrefix(nodes) ==
    IF nodes = <<>> THEN Ok(<<>>)
    ELSE LET first == DeCommand(Head(nodes))
         IN  IF first.res # "ok" THEN Ok(<<>>)
             ELSE Ok(<<first.v>> \o DeCommandsPrefix(Tail(nodes)).v)

\* The elements are parsed in document order; the first one that fails
\* decides the result.
RECURSIVE DeCommands(_)
DeCommands(nodes) ==
    IF nodes = <<>> THEN Ok(<<>>)
    ELSE LET first == DeCommand(Head(nodes))
         IN  IF first.res # "ok" THEN first
             ELSE LET rest == DeCommands(Tail(nodes))
                  IN  IF rest.res # "ok" THEN rest
                      ELSE Ok(<<first.v>> \o rest.v)

\* serde_json::from_reader::<CommandChain>; commands is a Vec<Command>, read
\* from an array.
DeChain(node) ==
    CommandsOf(DeStruct(node, <<"commands">>, FALSE,
                        [k \in Members(node) |->
                           IF Kind(ValueAt(node, k)) = "arr"
                           THEN DeCommands(Value(ValueAt(node, k)))
                           ELSE Err]))

(***************************************************************************)
(* External processes.  A spawned process either cannot be started, exits  *)
(* with a non-zero status, or exits with status zero.                      *)
(***************************************************************************)
ProcStatus == {"spawn_error", "exit_nonzero", "exit_ok"}

Call(exe, args, status) == [exe |-> exe, args |-> args, status |-> status]

(***************************************************************************)
(* grim.rs.                                                                *)
(***************************************************************************)
\* take_screenshot: grim's standard output is decoded whatever grim's exit
\* status; the result is an error or Some(image), never None.
take_screenshot(rect, grim) ==
    IF grim.status = "spawn_error" THEN Err
    ELSE LET dyn == load_from_memory(grim.stdout)
         IN  IF dyn.ok THEN Ok([some |-> TRUE, image |-> to_rgb8(dyn)]) ELSE Err

(***************************************************************************)
(* ydotool.rs.  Each operation returns whether it succeeded and the        *)
(* processes it ran.                                                       *)
(***************************************************************************)
move_mouse(position, status) ==
    [ok |-> status = "exit_ok",
     calls |-> <<Call("ydotool",
                      <<"mousemove", "--absolute", "-x", position.x, "-y", position.y>>,
                      status)>>]

\* Mutant of click: the result of the move is not looked at.
click_ignoring_move(position, move_status, click_status) ==
    [ok |-> click_status = "exit_ok",
     calls |-> move_mouse(position, move_status).calls
               \o <<Call("ydotool", <<"click", "40", "80">>, click_status)>>]

click(position, move_status, click_status) ==
    LET moved == move_mouse(position, move_status)
    IN  IF ~moved.ok THEN moved
        ELSE [ok |-> click_status = "exit_ok",
              calls |-> moved.calls
                        \o <<Call("ydotool", <<"click", "40", "80">>, click_status)>>]

\* Mutant of press_keys: the keys are released in the order they were pressed.
press_keys_same_order(keys, status) ==
    [ok |-> status = "exit_ok",
     calls |-> <<Call("ydotool",
                      <<"key">> \o [k \in 1..Len(keys) |-> <<keys[k], 1>>]
                                \o [k \in 1..Len(keys) |-> <<keys[k], 0>>],
                      status)>>]

\* The argument "{key}:1" is <<key, 1>>, "{key}:0" is <<key, 0>>.
press_keys(keys, status) ==
    [ok |-> status = "exit_ok",
     calls |-> <<Call("ydotool",
                      <<"key">> \o [k \in 1..Len(keys) |-> <<keys[k], 1>>]
                                \o [k \in 1..Len(keys) |-> <<Reverse(keys)[k], 0>>],
                      status)>>]

ydotool_type(text, status) ==
    [ok |-> status = "exit_ok",
     calls |-> <<Call("ydotool", <<"type", text>>, status)>>]

(***************************************************************************)
(* Sample data.                                                            *)
(***************************************************************************)
ImgA == [width |-> 1, height |-> 1, data |-> <<10, 20, 30>>]
ImgB == [width |-> 1, height |-> 1, data |-> <<10, 20, 31>>]
ImgC == [width |-> 2, height |-> 1, data |-> <<10, 20, 30, 10, 20, 30>>]
NoImage == [width |-> 0, height |-> 0, data |-> <<>>]

RectA == [x |-> U32(10), y |-> U32(20), width |-> U32(5), height |-> U32(5)]
RectEdge == [x |-> <<65535, 65535>>, y |-> U32(0), width |-> U32(2), height |-> U32(3)]
PosA == [x |-> U32(100), y |-> U32(200)]

WaitForImage(location, image, clk) ==
    [type |-> "WaitForImage", location |-> location, image |-> image, click |-> clk]
Sleep(secs, nanos) == [type |-> "Sleep", duration |-> [secs |-> secs, nanos |-> nanos]]
Shell(command) == [type |-> "Shell", command |-> command]
PressKeys(ks) == [type |-> "PressKeys", keys |-> ks]
Type(text) == [type |-> "Type", text |-> text]
Click(position) == [type |-> "Click", position |-> position]
MouseMove(position) == [type |-> "MouseMove", position |-> position]

\* What grim can write to its standard output: nothing (it failed), or the
\* PNG of what the screen shows.
GrimOutputs ==
    {[status |-> "spawn_error", stdout |-> <<>>],
     [status |-> "exit_nonzero", stdout |-> <<>>]}
    \cup {[status |-> "exit_ok", stdout |-> PngEncode(img).bytes] :
            img \in {ImgA, ImgB, ImgC}}

SampleCommands ==
    {WaitForImage(RectA, ImgA, TRUE), WaitForImage(RectA, ImgA, FALSE),
     WaitForImage(RectEdge, ImgC, TRUE),
     Sleep(1, 500000000), Shell("make"), PressKeys(<<>>), PressKeys(<<U32(29), U32(56), U32(111)>>),
     Type("hi"), Click(PosA), MouseMove(PosA)}

SampleChains == SeqsUpTo(SampleCommands, MaxChainLen)

\* A variant with its content, and a string that is base64 but no image.
Tagged(tag, body) == JObj(<<<<tag, body>>>>)
NotAnImage == JStr(Base64Encode(<<1, 2, 3>>))

\* Command nodes that do not load: an unknown variant, a missing field, an
\* image that is not base64, images that are base64 but no image (alone, and
\* after or before a member that serde rejects or a field that is missing),
\* a field given twice, arrays of the wrong length, a second variant, a
\* duration with a member that is not one of its fields, and texts that stop
\* being JSON inside a command: after an image that is base64 but no image,
\* and before the image.
BadNodes ==
    {Tagged("Jump", JObj(<<<<"position", SerPosition(PosA)>>>>)),
     Tagged("Shell", JObj(<<<<"cmd", JStr("make")>>>>)),
     Tagged("WaitForImage", JObj(<<<<"location", SerRect(RectA)>>,
                                   <<"image", JStr(<<65, 0, 0, 0>>)>>,
                                   <<"click", JBool(TRUE)>>>>)),
     Tagged("WaitForImage", JObj(<<<<"location", SerRect(RectA)>>,
                                   <<"image", NotAnImage>>,
                                   <<"click", JBool(TRUE)>>>>)),
     Tagged("WaitForImage", JObj(<<<<"location", SerRect(RectA)>>,
                                   <<"click", JNum(U32(5))>>,
                                   <<"image", NotAnImage>>>>)),
     Tagged("WaitForImage", JObj(<<<<"click", JStr("no")>>,
                                   <<"image", NotAnImage>>,
                                   <<"location", SerRect(RectA)>>>>)),
     Tagged("WaitForImage", JObj(<<<<"image", NotAnImage>>,
                                   <<"click", JBool(TRUE)>>>>)),
     Tagged("WaitForImage", JArr(<<SerRect(RectA), NotAnImage>>)),
     Tagged("Type", JObj(<<<<"text", JStr("hi")>>, <<"text", JStr("hi")>>>>)),
     Tagged("Shell", JArr(<<>>)),
     Tagged("Shell", JArr(<<JStr("make"), JStr("make")>>)),
     JObj(<<<<"Shell", JArr(<<JStr("make")>>)>>, <<"Type", JArr(<<JStr("hi")>>)>>>>),
     Tagged("Sleep", JObj(<<<<"duration",
                JObj(<<<<"secs", JNum(U32(1))>>, <<"nanos", JNum(U32(0))>>,
                       <<"millis", JNum(U32(0))>>>>)>>>>)),
     Tagged("WaitForImage", JObj(<<<<"location", SerRect(RectA)>>,
                                   <<"image", NotAnImage>>,
                                   <<"", <<"invalid", <<>>>>>>>>)),
     Tagged("WaitForImage", JObj(<<<<"image", NotAnImage>>,
                                   <<"", <<"invalid", <<>>>>>>>>)),
     Tagged("WaitForImage", JObj(<<<<"location", SerRect(RectA)>>,
                                   <<"", <<"invalid", <<>>>>>>,
                                   <<"image", NotAnImage>>>>)),
     JStr("Shell")}

\* No file; a file whose text is not JSON from its first value on (an empty
\* file, words, a file that was not written to its end); a file with a
\* document.
NoFile == [exists |-> FALSE, doc |-> <<"none", <<>>>>]
InvalidFile == [exists |-> TRUE, doc |-> <<"invalid", <<>>>>]
FileOf(doc) == [exists |-> TRUE, doc |-> doc]

\* Files that do not load: text that is not JSON, chains with a command
\* that does not load, documents that are no chain, and a chain followed by
\* a member that is no field and holds a syntax error.
MalformedFiles ==
    {InvalidFile}
    \cup {FileOf(JObj(<<<<"commands",
                JArr([k \in 1..Len(pre) |-> SerCommand(pre[k]).v] \o <<bad>>)>>>>)) :
            pre \in SeqsUpTo({Shell("make"), Click(PosA)}, 1), bad \in BadNodes}
    \cup {FileOf(JArr(<<>>)), FileOf(JObj(<<>>)),
          FileOf(JArr(<<JArr(<<>>), JArr(<<>>)>>)),
          FileOf(JObj(<<<<"commands", JArr(<<>>)>>, <<"commands", JArr(<<>>)>>>>)),
          FileOf(JObj(<<<<"commands", JArr(<<>>)>>,
                        <<"version", JArr(<<JNum(U32(1)), <<"invalid", <<>>>>>>)>>>>))}

\* Files that load although the program does not write them so: structs
\* and struct variants written as arrays, members in another order, members
\* that are no field.
LenientFiles ==
    {FileOf(JArr(<<JArr(<<>>)>>)),
     FileOf(JObj(<<<<"commands", JArr(<<Tagged("Shell", JArr(<<JStr("make")>>))>>)>>>>)),
     FileOf(JArr(<<JArr(<<
        Tagged("Sleep", JObj(<<<<"duration",
                 JArr(<<JNum(U32(1)), JNum(U32(500000000))>>)>>>>)),
        Tagged("Click", JArr(<<JArr(<<JNum(PosA.x), JNum(PosA.y)>>)>>))>>)>>)),
     FileOf(JObj(<<<<"version", JNum(U32(1))>>,
                   <<"commands", JArr(<<
        Tagged("WaitForImage",
               JObj(<<<<"click", JBool(TRUE)>>,
                      <<"image", serde_img_serialize(ImgA).v>>,
                      <<"note", JStr("hi")>>,
                      <<"location", JArr(<<JNum(RectA.x), JNum(RectA.y),
                                           JNum(RectA.width), JNum(RectA.height)>>)>>>>))
                   >>)>>>>))}

CommandFiles ==
    {NoFile} \cup MalformedFiles \cup LenientFiles
    \cup {FileOf(SerChain(c).v) : c \in SampleChains}

(***************************************************************************)
(* Text.  A string that the program parses is a sequence of character      *)
(* codes.                                                                  *)
(***************************************************************************)
\* str::parse::<u32>: an optional '+', then one or more decimal digits; a
\* value above u32::MAX is an error.
RECURSIVE ParseDigits(_, _)
ParseDigits(ds, acc) ==
    IF ds = <<>> THEN [ok |-> TRUE, value |-> acc]
    ELSE IF Head(ds) < 48 \/ Head(ds) > 57 THEN [ok |-> FALSE, value |-> acc]
    ELSE LET lo == acc[2] * 10 + (Head(ds) - 48)
             hi == acc[1] * 10 + lo \div 65536
         IN  IF hi >= 65536 THEN [ok |-> FALSE, value |-> acc]
             ELSE ParseDigits(Tail(ds), <<hi, lo % 65536>>)

ParseU32(str) ==
    LET ds == IF str # <<>> /\ Head(str) = 43 THEN Tail(str) ELSE str
    IN  IF ds = <<>> THEN [ok |-> FALSE, value |-> U32(0)] ELSE ParseDigits(ds, U32(0))

\* str::split(sep): the pieces between the separators, at least one.
RECURSIVE Split(_, _)
Split(str, sep) ==
    IF \A k \in 1..Len(str) : str[k] # sep THEN <<str>>
    ELSE LET at == CHOOSE k \in 1..Len(str) :
                      str[k] = sep /\ \A j \in 1..(k - 1) : str[j] # sep
         IN  <<SubSeq(str, 1, at - 1)>> \o Split(SubSeq(str, at + 1, Len(str)), sep)

\* char::is_whitespace: the code points with the Unicode property White_Space.
IsSpace(c) ==
    c \in {9, 10, 11, 12, 13, 32, 133, 160, 5760, 8232, 8233, 8239, 8287, 12288}
          \cup (8192..8202)

\* str::split_whitespace: the non-empty pieces between runs of white space.
RECURSIVE SplitWhitespace(_)
SplitWhitespace(str) ==
    IF str = <<>> THEN <<>>
    ELSE IF IsSpace(Head(str)) THEN SplitWhitespace(Tail(str))
    ELSE LET end == IF \E k \in 1..Len(str) : IsSpace(str[k])
                    THEN (CHOOSE k \in 1..Len(str) :
                            IsSpace(str[k]) /\ \A j \in 1..(k - 1) : ~IsSpace(str[j])) - 1
                    ELSE Len(str)
         IN  <<SubSeq(str, 1, end)>> \o SplitWhitespace(SubSeq(str, end + 1, Len(str)))

RECURSIVE TrimEnd(_)
TrimEnd(str) ==
    IF str # <<>> /\ IsSpace(str[Len(str)]) THEN TrimEnd(SubSeq(str, 1, Len(str) - 1))
    ELSE str

\* The Unicode properties Cased and Case_Ignorable as the standard library
\* tabulates them (core::unicode, Unicode 17.0), over all code points.
Cased(c) ==
    \/ c \in {170, 181, 186, 837, 895, 902, 908, 4295, 4301, 8025, 8027, 8029,
              8126, 8305, 8319, 8450, 8455, 8469, 8484, 8486, 8488, 8505,
              8526, 11559, 11565, 67456, 119970, 119995, 120134}
    \/ c \in 65..90 \/ c \in 97..122 \/ c \in 192..214 \/ c \in 216..246
    \/ c \in 248..442 \/ c \in 444..447 \/ c \in 452..659 \/ c \in 662..696
    \/ c \in 704..705 \/ c \in 736..740 \/ c \in 880..883 \/ c \in 886..887
    \/ c \in 890..893 \/ c \in 904..906 \/ c \in 910..929 \/ c \in 931..1013
    \/ c \in 1015..1153 \/ c \in 1162..1327 \/ c \in 1329..1366
    \/ c \in 1376..1416 \/ c \in 4256..4293 \/ c \in 4304..4346
    \/ c \in 4348..4351 \/ c \in 5024..5109 \/ c \in 5112..5117
    \/ c \in 7296..7306 \/ c \in 7312..7354 \/ c \in 7357..7359
    \/ c \in 7424..7615 \/ c \in 7680..7957 \/ c \in 7960..7965
    \/ c \in 7968..8005 \/ c \in 8008..8013 \/ c \in 8016..8023
    \/ c \in 8031..8061 \/ c \in 8064..8116 \/ c \in 8118..8124
    \/ c \in 8130..8132 \/ c \in 8134..8140 \/ c \in 8144..8147
    \/ c \in 8150..8155 \/ c \in 8160..8172 \/ c \in 8178..8180
    \/ c \in 8182..8188 \/ c \in 8336..8348 \/ c \in 8458..8467
    \/ c \in 8473..8477 \/ c \in 8490..8493 \/ c \in 8495..8500
    \/ c \in 8508..8511 \/ c \in 8517..8521 \/ c \in 8544..8575
    \/ c \in 8579..8580 \/ c \in 9398..9449 \/ c \in 11264..11492
    \/ c \in 11499..11502 \/ c \in 11506..11507 \/ c \in 11520..11557
    \/ c \in 42560..42605 \/ c \in 42624..42653 \/ c \in 42786..42887
    \/ c \in 42891..42894 \/ c \in 42896..42972 \/ c \in 42993..42998
    \/ c \in 43000..43002 \/ c \in 43824..43866 \/ c \in 43868..43881
    \/ c \in 43888..43967 \/ c \in 64256..64262 \/ c \in 64275..64279
    \/ c \in 65313..65338 \/ c \in 65345..65370 \/ c \in 66560..66639
    \/ c \in 66736..66771 \/ c \in 66776..66811 \/ c \in 66928..66938
    \/ c \in 66940..66954 \/ c \in 66956..66962 \/ c \in 66964..66965
    \/ c \in 66967..66977 \/ c \in 66979..66993 \/ c \in 66995..67001
    \/ c \in 67003..67004 \/ c \in 67459..67461 \/ c \in 67463..67504
    \/ c \in 67506..67514 \/ c \in 68736..68786 \/ c \in 68800..68850
    \/ c \in 68944..68965 \/ c \in 68976..68997 \/ c \in 71840..71903
    \/ c \in 93760..93823 \/ c \in 93856..93880 \/ c \in 93883..93907
    \/ c \in 119808..119892 \/ c \in 119894..119964 \/ c \in 119966..119967
    \/ c \in 119973..119974 \/ c \in 119977..119980 \/ c \in 119982..119993
    \/ c \in 119997..120003 \/ c \in 120005..120069 \/ c \in 120071..120074
    \/ c \in 120077..120084 \/ c \in 120086..120092 \/ c \in 120094..120121
    \/ c \in 120123..120126 \/ c \in 120128..120132 \/ c \in 120138..120144
    \/ c \in 120146..120485 \/ c \in 120488..120512 \/ c \in 120514..120538
    \/ c \in 120540..120570 \/ c \in 120572..120596 \/ c \in 120598..120628
    \/ c \in 120630..120654 \/ c \in 120656..120686 \/ c \in 120688..120712
    \/ c \in 120714..120744 \/ c \in 120746..120770 \/ c \in 120772..120779
    \/ c \in 122624..122633 \/ c \in 122635..122654 \/ c \in 122661..122666
    \/ c \in 122928..122989 \/ c \in 125184..125251 \/ c \in 127280..127305
    \/ c \in 127312..127337 \/ c \in 127344..127369

Case_Ignorable(c) ==
    \/ c \in {39, 46, 58, 94, 96, 168, 173, 175, 180, 890, 903, 1369, 1375,
              1471, 1479, 1524, 1564, 1600, 1648, 1807, 1809, 2042, 2045,
              2184, 2362, 2364, 2381, 2417, 2433, 2492, 2509, 2558, 2620,
              2641, 2677, 2748, 2765, 2817, 2876, 2879, 2893, 2946, 3008,
              3021, 3072, 3076, 3132, 3201, 3260, 3263, 3270, 3405, 3457,
              3530, 3542, 3633, 3761, 3782, 3893, 3895, 3897, 4038, 4226,
              4237, 4253, 4348, 6086, 6103, 6109, 6211, 6313, 6450, 6683,
              6742, 6752, 6754, 6783, 6823, 6964, 6972, 6978, 7142, 7149,
              7405, 7412, 7544, 8125, 8228, 8231, 8305, 8319, 11631, 11647,
              11823, 12293, 12347, 40981, 42508, 42623, 42864, 43010, 43014,
              43019, 43052, 43263, 43443, 43471, 43587, 43596, 43632, 43644,
              43696, 43713, 43741, 43766, 44005, 44008, 44013, 64286, 65043,
              65106, 65109, 65279, 65287, 65294, 65306, 65342, 65344, 65392,
              65507, 66045, 66272, 68159, 68942, 68975, 69317, 69633, 69744,
              69821, 69826, 69837, 70003, 70095, 70196, 70206, 70209, 70367,
              70464, 70606, 70608, 70610, 70726, 70750, 70842, 71229, 71339,
              71341, 71351, 71453, 71455, 71998, 72003, 72160, 72263, 72544,
              72550, 72767, 73018, 73031, 73109, 73111, 73177, 73536, 73538,
              73562, 94031, 121461, 121476, 123023, 123566, 124643, 124646,
              124661, 124671, 917505}
    \/ c \in 183..184 \/ c \in 688..879 \/ c \in 884..885 \/ c \in 900..901
    \/ c \in 1155..1161 \/ c \in 1425..1469 \/ c \in 1473..1474
    \/ c \in 1476..1477 \/ c \in 1536..1541 \/ c \in 1552..1562
    \/ c \in 1611..1631 \/ c \in 1750..1757 \/ c \in 1759..1768
    \/ c \in 1770..1773 \/ c \in 1840..1866 \/ c \in 1958..1968
    \/ c \in 2027..2037 \/ c \in 2070..2093 \/ c \in 2137..2139
    \/ c \in 2192..2193 \/ c \in 2199..2207 \/ c \in 2249..2306
    \/ c \in 2369..2376 \/ c \in 2385..2391 \/ c \in 2402..2403
    \/ c \in 2497..2500 \/ c \in 2530..2531 \/ c \in 2561..2562
    \/ c \in 2625..2626 \/ c \in 2631..2632 \/ c \in 2635..2637
    \/ c \in 2672..2673 \/ c \in 2689..2690 \/ c \in 2753..2757
    \/ c \in 2759..2760 \/ c \in 2786..2787 \/ c \in 2810..2815
    \/ c \in 2881..2884 \/ c \in 2901..2902 \/ c \in 2914..2915
    \/ c \in 3134..3136 \/ c \in 3142..3144 \/ c \in 3146..3149
    \/ c \in 3157..3158 \/ c \in 3170..3171 \/ c \in 3276..3277
    \/ c \in 3298..3299 \/ c \in 3328..3329 \/ c \in 3387..3388
    \/ c \in 3393..3396 \/ c \in 3426..3427 \/ c \in 3538..3540
    \/ c \in 3636..3642 \/ c \in 3654..3662 \/ c \in 3764..3772
    \/ c \in 3784..3790 \/ c \in 3864..3865 \/ c \in 3953..3966
    \/ c \in 3968..3972 \/ c \in 3974..3975 \/ c \in 3981..3991
    \/ c \in 3993..4028 \/ c \in 4141..4144 \/ c \in 4146..4151
    \/ c \in 4153..4154 \/ c \in 4157..4158 \/ c \in 4184..4185
    \/ c \in 4190..4192 \/ c \in 4209..4212 \/ c \in 4229..4230
    \/ c \in 4957..4959 \/ c \in 5906..5908 \/ c \in 5938..5939
    \/ c \in 5970..5971 \/ c \in 6002..6003 \/ c \in 6068..6069
    \/ c \in 6071..6077 \/ c \in 6089..6099 \/ c \in 6155..6159
    \/ c \in 6277..6278 \/ c \in 6432..6434 \/ c \in 6439..6440
    \/ c \in 6457..6459 \/ c \in 6679..6680 \/ c \in 6744..6750
    \/ c \in 6757..6764 \/ c \in 6771..6780 \/ c \in 6832..6877
    \/ c \in 6880..6891 \/ c \in 6912..6915 \/ c \in 6966..6970
    \/ c \in 7019..7027 \/ c \in 7040..7041 \/ c \in 7074..7077
    \/ c \in 7080..7081 \/ c \in 7083..7085 \/ c \in 7144..7145
    \/ c \in 7151..7153 \/ c \in 7212..7219 \/ c \in 7222..7223
    \/ c \in 7288..7293 \/ c \in 7376..7378 \/ c \in 7380..7392
    \/ c \in 7394..7400 \/ c \in 7416..7417 \/ c \in 7468..7530
    \/ c \in 7579..7679 \/ c \in 8127..8129 \/ c \in 8141..8143
    \/ c \in 8157..8159 \/ c \in 8173..8175 \/ c \in 8189..8190
    \/ c \in 8203..8207 \/ c \in 8216..8217 \/ c \in 8234..8238
    \/ c \in 8288..8292 \/ c \in 8294..8303 \/ c \in 8336..8348
    \/ c \in 8400..8432 \/ c \in 11388..11389 \/ c \in 11503..11505
    \/ c \in 11744..11775 \/ c \in 12330..12333 \/ c \in 12337..12341
    \/ c \in 12441..12446 \/ c \in 12540..12542 \/ c \in 42232..42237
    \/ c \in 42607..42610 \/ c \in 42612..42621 \/ c \in 42652..42655
    \/ c \in 42736..42737 \/ c \in 42752..42785 \/ c \in 42888..42890
    \/ c \in 42993..42996 \/ c \in 43000..43001 \/ c \in 43045..43046
    \/ c \in 43204..43205 \/ c \in 43232..43249 \/ c \in 43302..43309
    \/ c \in 43335..43345 \/ c \in 43392..43394 \/ c \in 43446..43449
    \/ c \in 43452..43453 \/ c \in 43493..43494 \/ c \in 43561..43566
    \/ c \in 43569..43570 \/ c \in 43573..43574 \/ c \in 43698..43700
    \/ c \in 43703..43704 \/ c \in 43710..43711 \/ c \in 43756..43757
    \/ c \in 43763..43764 \/ c \in 43867..43871 \/ c \in 43881..43883
    \/ c \in 64434..64450 \/ c \in 65024..65039 \/ c \in 65056..65071
    \/ c \in 65438..65439 \/ c \in 65529..65531 \/ c \in 66422..66426
    \/ c \in 67456..67461 \/ c \in 67463..67504 \/ c \in 67506..67514
    \/ c \in 68097..68099 \/ c \in 68101..68102 \/ c \in 68108..68111
    \/ c \in 68152..68154 \/ c \in 68325..68326 \/ c \in 68900..68903
    \/ c \in 68969..68973 \/ c \in 69291..69292 \/ c \in 69370..69375
    \/ c \in 69446..69456 \/ c \in 69506..69509 \/ c \in 69688..69702
    \/ c \in 69747..69748 \/ c \in 69759..69761 \/ c \in 69811..69814
    \/ c \in 69817..69818 \/ c \in 69888..69890 \/ c \in 69927..69931
    \/ c \in 69933..69940 \/ c \in 70016..70017 \/ c \in 70070..70078
    \/ c \in 70089..70092 \/ c \in 70191..70193 \/ c \in 70198..70199
    \/ c \in 70371..70378 \/ c \in 70400..70401 \/ c \in 70459..70460
    \/ c \in 70502..70508 \/ c \in 70512..70516 \/ c \in 70587..70592
    \/ c \in 70625..70626 \/ c \in 70712..70719 \/ c \in 70722..70724
    \/ c \in 70835..70840 \/ c \in 70847..70848 \/ c \in 70850..70851
    \/ c \in 71090..71093 \/ c \in 71100..71101 \/ c \in 71103..71104
    \/ c \in 71132..71133 \/ c \in 71219..71226 \/ c \in 71231..71232
    \/ c \in 71344..71349 \/ c \in 71458..71461 \/ c \in 71463..71467
    \/ c \in 71727..71735 \/ c \in 71737..71738 \/ c \in 71995..71996
    \/ c \in 72148..72151 \/ c \in 72154..72155 \/ c \in 72193..72202
    \/ c \in 72243..72248 \/ c \in 72251..72254 \/ c \in 72273..72278
    \/ c \in 72281..72283 \/ c \in 72330..72342 \/ c \in 72344..72345
    \/ c \in 72546..72548 \/ c \in 72752..72758 \/ c \in 72760..72765
    \/ c \in 72850..72871 \/ c \in 72874..72880 \/ c \in 72882..72883
    \/ c \in 72885..72886 \/ c \in 73009..73014 \/ c \in 73020..73021
    \/ c \in 73023..73029 \/ c \in 73104..73105 \/ c \in 73459..73460
    \/ c \in 73472..73473 \/ c \in 73526..73530 \/ c \in 78896..78912
    \/ c \in 78919..78933 \/ c \in 90398..90409 \/ c \in 90413..90415
    \/ c \in 92912..92916 \/ c \in 92976..92982 \/ c \in 92992..92995
    \/ c \in 93504..93506 \/ c \in 93547..93548 \/ c \in 94095..94111
    \/ c \in 94176..94177 \/ c \in 94179..94180 \/ c \in 94194..94195
    \/ c \in 110576..110579 \/ c \in 110581..110587 \/ c \in 110589..110590
    \/ c \in 113821..113822 \/ c \in 113824..113827 \/ c \in 118528..118573
    \/ c \in 118576..118598 \/ c \in 119143..119145 \/ c \in 119155..119170
    \/ c \in 119173..119179 \/ c \in 119210..119213 \/ c \in 119362..119364
    \/ c \in 121344..121398 \/ c \in 121403..121452 \/ c \in 121499..121503
    \/ c \in 121505..121519 \/ c \in 122880..122886 \/ c \in 122888..122904
    \/ c \in 122907..122913 \/ c \in 122915..122916 \/ c \in 122918..122922
    \/ c \in 122928..122989 \/ c \in 123184..123197 \/ c \in 123628..123631
    \/ c \in 124139..124143 \/ c \in 124398..124399 \/ c \in 124654..124655
    \/ c \in 125136..125142 \/ c \in 125252..125259 \/ c \in 127995..127999
    \/ c \in 917536..917631 \/ c \in 917760..917999

\* char::to_lowercase (Unicode 17.0): the lowercase mapping of one character;
\* one character, or two for U+0130.  The capital sigma U+03A3 maps to the
\* small sigma; the final sigma is str::to_lowercase's business.
CharToLowercase(c) ==
    LET other == {p \in {<<376, 255>>, <<385, 595>>, <<390, 596>>,
                          <<398, 477>>, <<399, 601>>, <<400, 603>>,
                          <<404, 611>>, <<406, 617>>, <<407, 616>>,
                          <<412, 623>>, <<413, 626>>, <<415, 629>>,
                          <<439, 658>>, <<502, 405>>, <<503, 447>>,
                          <<570, 11365>>, <<573, 410>>, <<574, 11366>>,
                          <<579, 384>>, <<580, 649>>, <<581, 652>>,
                          <<895, 1011>>, <<902, 940>>, <<1012, 952>>,
                          <<1017, 1010>>, <<1216, 1231>>, <<7838, 223>>,
                          <<8172, 8165>>, <<8486, 969>>, <<8490, 107>>,
                          <<8491, 229>>, <<8498, 8526>>, <<11362, 619>>,
                          <<11363, 7549>>, <<11364, 637>>, <<11373, 593>>,
                          <<11374, 625>>, <<11375, 592>>, <<11376, 594>>,
                          <<42877, 7545>>, <<42893, 613>>, <<42922, 614>>,
                          <<42923, 604>>, <<42924, 609>>, <<42925, 620>>,
                          <<42926, 618>>, <<42928, 670>>, <<42929, 647>>,
                          <<42930, 669>>, <<42931, 43859>>, <<42948, 42900>>,
                          <<42949, 642>>, <<42950, 7566>>, <<42955, 612>>,
                          <<42972, 411>>} :
                      p[1] = c}
    IN  CASE c = 304 -> <<105, 775>>
          [] \/ c \in 65..90 \/ c \in 192..214 \/ c \in 216..222
             \/ c \in 913..929 \/ c \in 931..939 \/ c \in 1040..1071
             \/ c \in 65313..65338 \/ c \in 68944..68965 \/ c \in 71840..71871
             \/ c \in 93760..93791
               -> <<c + 32>>
          [] /\ c % 2 = 0
             /\ \/ c \in 256..302 \/ c \in 306..310 \/ c \in 330..374
                \/ c \in 386..388 \/ c \in 416..420 \/ c \in 478..494
                \/ c \in 498..500 \/ c \in 504..542 \/ c \in 546..562
                \/ c \in 582..590 \/ c \in 880..882 \/ c \in 984..1006
                \/ c \in 1120..1152 \/ c \in 1162..1214 \/ c \in 1232..1326
                \/ c \in 7680..7828 \/ c \in 7840..7934 \/ c \in 11392..11490
                \/ c \in 42560..42604 \/ c \in 42624..42650
                \/ c \in 42786..42798 \/ c \in 42802..42862
                \/ c \in 42878..42886 \/ c \in 42896..42898
                \/ c \in 42902..42920 \/ c \in 42932..42946
                \/ c \in 42956..42970
               -> <<c + 1>>
          [] /\ c % 2 = 1
             /\ \/ c \in 313..327 \/ c \in 377..381 \/ c \in 435..437
                \/ c \in 459..475 \/ c \in 1217..1229 \/ c \in 11367..11371
                \/ c \in 11499..11501 \/ c \in 42873..42875
                \/ c \in 42951..42953
               -> <<c + 1>>
          [] \/ c \in {391, 395, 401, 408, 423, 428, 431, 440, 444, 453, 456,
                       571, 577, 886, 1015, 1018, 7305, 8579, 11360, 11378,
                       11381, 11506, 42891, 42997}
               -> <<c + 1>>
          [] c = 403 \/ c \in 393..394 -> <<c + 205>>
          [] c \in {422, 425, 430} -> <<c + 218>>
          [] c \in 433..434 -> <<c + 217>>
          [] c \in {452, 455, 458, 497} -> <<c + 2>>
          [] c = 544 \/ c \in 1021..1023 -> <<c - 130>>
          [] c \in 904..906 -> <<c + 37>>
          [] c = 908 \/ c \in 68736..68786 -> <<c + 64>>
          [] c \in 910..911 -> <<c + 63>>
          [] c = 975 \/ c \in 5104..5109 -> <<c + 8>>
          [] c \in 1024..1039 -> <<c + 80>>
          [] c \in 1329..1366 \/ c \in 11264..11311 -> <<c + 48>>
          [] c \in {4295, 4301} \/ c \in 4256..4293 -> <<c + 7264>>
          [] c \in 5024..5103 -> <<c + 38864>>
          [] c \in 7312..7354 \/ c \in 7357..7359 -> <<c - 3008>>
          [] \/ c \in 7944..7951 \/ c \in 7960..7965 \/ c \in 7976..7983
             \/ c \in 7992..7999 \/ c \in 8008..8013 \/ c \in 8040..8047
             \/ c \in 8072..8079 \/ c \in 8088..8095 \/ c \in 8104..8111
             \/ c \in 8120..8121 \/ c \in 8152..8153 \/ c \in 8168..8169
               -> <<c - 8>>
          [] c % 2 = 1 /\ c \in 8025..8031 -> <<c - 8>>
          [] c \in 8122..8123 -> <<c - 74>>
          [] c \in {8124, 8140, 8188} -> <<c - 9>>
          [] c \in 8136..8139 -> <<c - 86>>
          [] c \in 8154..8155 -> <<c - 100>>
          [] c \in 8170..8171 -> <<c - 112>>
          [] c \in 8184..8185 -> <<c - 128>>
          [] c \in 8186..8187 -> <<c - 126>>
          [] c \in 8544..8559 -> <<c + 16>>
          [] c \in 9398..9423 -> <<c + 26>>
          [] c \in 11390..11391 -> <<c - 10815>>
          [] c \in 66560..66599 \/ c \in 66736..66771 -> <<c + 40>>
          [] \/ c \in 66928..66938 \/ c \in 66940..66954 \/ c \in 66956..66962
             \/ c \in 66964..66965
               -> <<c + 39>>
          [] c \in 93856..93880 -> <<c + 27>>
          [] c \in 125184..125217 -> <<c + 34>>
          [] other # {} -> <<(CHOOSE p \in other : TRUE)[2]>>
          [] OTHER -> <<c>>

\* case_ignorable_then_cased: the first character that is not case-ignorable
\* exists and is cased.
case_ignorable_then_cased(chars) ==
    \E k \in 1..Len(chars) :
      /\ Cased(chars[k]) /\ ~Case_Ignorable(chars[k])
      /\ \A j \in 1..(k - 1) : Case_Ignorable(chars[j])

\* str::to_lowercase: every character is replaced by its lowercase mapping;
\* a capital sigma (U+03A3) becomes the final sigma (U+03C2) at the end of a
\* word and the small sigma (U+03C3) elsewhere.
ToLowercase(str) ==
    Flatten([k \in 1..Len(str) |->
        IF str[k] = 931
        THEN IF /\ case_ignorable_then_cased(Reverse(SubSeq(str, 1, k - 1)))
                /\ ~case_ignorable_then_cased(SubSeq(str, k + 1, Len(str)))
             THEN <<962>> ELSE <<963>>
        ELSE CharToLowercase(str[k])])

StartsWith(str, prefix) ==
    Len(str) >= Len(prefix) /\ SubSeq(str, 1, Len(prefix)) = prefix

\* The order of String: byte-wise lexicographic.
StrLess(a, b) ==
    \/ Len(a) < Len(b) /\ SubSeq(b, 1, Len(a)) = a
    \/ \E k \in 1..Len(a) :
         /\ k <= Len(b) /\ a[k] < b[k]
         /\ \A j \in 1..(k - 1) : a[j] = b[j]

\* The elements of a set of strings in ascending order (a BTreeMap's keys).
RECURSIVE Ascending(_)
Ascending(S) ==
    IF S = {} THEN <<>>
    ELSE LET least == CHOOSE a \in S : \A b \in S \ {a} : StrLess(a, b)
         IN  <<least>> \o Ascending(S \ {least})

(***************************************************************************)
(* slurp.rs.                                                               *)
(***************************************************************************)
None == [some |-> FALSE]
Some(v) == [some |-> TRUE, v |-> v]

\* Mutant of query_rect: a selection that was cancelled is an error.
query_rect_cancel_err(point, slurp) ==
    IF slurp.status = "spawn_error" THEN Err
    ELSE IF slurp.status # "exit_ok" THEN Err
    ELSE LET output == slurp.stdout
             by_comma == Split(output, 44)
             by_space == Split(output, 32)
             x == ParseU32(by_comma[1])
         IN  IF ~x.ok \/ Len(by_comma) < 2 THEN Err
             ELSE LET y == ParseU32(Split(by_comma[2], 32)[1])
                  IN  IF ~y.ok \/ Len(by_space) < 2 THEN Err
                      ELSE LET by_x == Split(by_space[2], 120)
                               width == ParseU32(by_x[1])
                           IN  IF ~width.ok \/ Len(by_x) < 2 THEN Err
                               ELSE LET height == ParseU32(TrimEnd(by_x[2]))
                                    IN  IF ~height.ok THEN Err
                                        ELSE Ok(Some([x |-> x.value, y |-> y.value,
                                                      width |-> width.value,
                                                      height |-> height.value]))

\* query_rect: None when slurp's status is not success (the selection was
\* cancelled); otherwise its output "X,Y WxH" is parsed.
query_rect(point, slurp) ==
    IF slurp.status = "spawn_error" THEN Err
    ELSE IF slurp.status # "exit_ok" THEN Ok(None)
    ELSE LET output == slurp.stdout
             by_comma == Split(output, 44)
             by_space == Split(output, 32)
             x == ParseU32(by_comma[1])
         IN  IF ~x.ok \/ Len(by_comma) < 2 THEN Err
             ELSE LET y == ParseU32(Split(by_comma[2], 32)[1])
                  IN  IF ~y.ok \/ Len(by_space) < 2 THEN Err
                      ELSE LET by_x == Split(by_space[2], 120)
                               width == ParseU32(by_x[1])
                           IN  IF ~width.ok \/ Len(by_x) < 2 THEN Err
                               ELSE LET height == ParseU32(TrimEnd(by_x[2]))
                                    IN  IF ~height.ok THEN Err
                                        ELSE Ok(Some([x |-> x.value, y |-> y.value,
                                                      width |-> width.value,
                                                      height |-> height.value]))

(***************************************************************************)
(* key_codes.rs.  A KeyCodes is [codes, names_list]: the map from names to *)
(* numbers (a function) and the list of names.                             *)
(***************************************************************************)
KeyPrefix == <<35, 100, 101, 102, 105, 110, 101, 32, 75, 69, 89, 95>>

\* One line of the header: "#define KEY_<name> <number>" inserts an entry
\* (replacing an entry of the same lowercased name), any other line is
\* skipped.
InsertLine(codes, line) ==
    IF ~StartsWith(line, KeyPrefix) THEN codes
    ELSE LET parts == SplitWhitespace(SubSeq(line, Len(KeyPrefix) + 1, Len(line)))
         IN  IF Len(parts) < 2 \/ ~ParseU32(parts[2]).ok THEN codes
             ELSE LET name == ToLowercase(parts[1])
                  IN  [n \in DOMAIN codes \cup {name} |->
                         IF n = name THEN ParseU32(parts[2]).value ELSE codes[n]]

\* A line of the header as BufRead::lines yields it: its text, or an error
\* (the read failed or the bytes are not UTF-8).
Line(text) == [ok |-> TRUE, text |-> text]
BadLine == [ok |-> FALSE, text |-> <<>>]

\* The loop over the lines: the first line that is an error ends it.
RECURSIVE InsertLines(_, _)
InsertLines(codes, lines) ==
    IF lines = <<>> THEN Ok(codes)
    ELSE IF ~Head(lines).ok THEN Err
    ELSE InsertLines(InsertLine(codes, Head(lines).text), Tail(lines))

\* KeyCodes::new
KeyCodes_new(hdr) ==
    IF ~hdr.available THEN Err
    ELSE LET read == InsertLines(<<>>, hdr.lines)
         IN  IF read.res # "ok" THEN Err
             ELSE Ok([codes |-> read.v, names_list |-> Ascending(DOMAIN read.v)])

\* KeyCodes::codes
codes(kc) == kc.names_list

\* Mutant of get_num: the index is taken to count from 1 less than it does.
get_num_shifted(kc, index) ==
    IF index + 1 < Len(kc.names_list) /\ kc.names_list[index + 2] \in DOMAIN kc.codes
    THEN Some(kc.codes[kc.names_list[index + 2]])
    ELSE None

\* KeyCodes::get_num; index counts from 0.
get_num(kc, index) ==
    IF index < Len(kc.names_list) /\ kc.names_list[index + 1] \in DOMAIN kc.codes
    THEN Some(kc.codes[kc.names_list[index + 1]])
    ELSE None

\* Mutant of reverse_lookup: the last entry, in the map's key order, whose
\* code is keycode.
reverse_lookup_last(kc, keycode) ==
    LET names == Ascending(DOMAIN kc.codes)
        hits == {k \in 1..Len(names) : kc.codes[names[k]] = keycode}
    IN  IF hits = {} THEN None
        ELSE Some(names[CHOOSE k \in hits : \A j \in hits : k >= j])

\* KeyCodes::reverse_lookup: the first entry, in the map's key order, whose
\* code is keycode.
reverse_lookup(kc, keycode) ==
    LET names == Ascending(DOMAIN kc.codes)
        hits == {k \in 1..Len(names) : kc.codes[names[k]] = keycode}
    IN  IF hits = {} THEN None
        ELSE Some(names[CHOOSE k \in hits : \A j \in hits : k <= j])

(***************************************************************************)
(* State.                                                                  *)
(***************************************************************************)
VARIABLES
    config,          \* the subcommand: "Run", "Record", "Print"
    pc,              \* where main() is
    exit,            \* "running", or how main() ends: "ok", "err", "panic"
    file,            \* the command file
    chain,           \* CommandChain.commands (loaded, or being recorded)
    overflow_checks, \* whether the build checks arithmetic overflow
    \* run
    num_runs,        \* --num-runs
    i,               \* passes started so far
    idx,             \* index in the chain of the command being executed
    phase,           \* "start", or inside WaitForImage: "polling", "matched"
    curr_image,      \* the most recent capture of the WaitForImage loop
    grim_last,       \* how grim ended in the most recent round ("none" before)
    round,           \* the parity of the number of captures made by the polling loop
    stdout,          \* the progress lines printed: <<i, num_runs>>
    invoked,         \* the Command::execute calls made: <<pass, index>>
    log,             \* the processes run and sleeps made by the commands
    daemon,          \* ydotoold: "none", "alive", "killed"
    starts,          \* how many times ydotoold was spawned
    \* record
    header,          \* /usr/include/linux/input-event-codes.h
    key_codes,       \* the KeyCodes built by KeyCodes::new
    location,        \* wait_for_image: the rectangle selected
    click_opt,       \* wait_for_image: its click argument
    keys,            \* press keys: the codes picked so far
    slurp_last,      \* how slurp ended in the last menu step ("none": not run)
    picks,           \* press keys: the indexes picked in the list of names, until the flow ends
    secs_in,         \* sleep: what the prompt returned last (NoInput: not asked)
    \* print
    content,         \* to_pdf: the markup written to joined.typ
    pdf              \* the output file of `print`

mainVars == <<config, pc, exit, file, chain, overflow_checks>>
runVars == <<num_runs, i, idx, phase, curr_image, grim_last, round, stdout, invoked, log,
            daemon, starts>>
recVars == <<header, key_codes, location, click_opt, keys, slurp_last, picks, secs_in>>
printVars == <<content, pdf>>
vars == <<mainVars, runVars, recVars, printVars>>

NoKeyCodes == [codes |-> <<>>, names_list |-> <<>>]
NoInput == [ok |-> FALSE, class |-> "none", neg |-> FALSE, secs |-> 0, nanos |-> 0,
            huge |-> FALSE]
NoHeader == [available |-> FALSE, lines |-> <<>>]

RunIdle ==
    /\ num_runs = 0 /\ i = 0 /\ idx = 0 /\ phase = "start" /\ curr_image = NoImage
    /\ grim_last = "none" /\ round = 0
    /\ stdout = <<>> /\ invoked = <<>> /\ log = <<>> /\ daemon = "none" /\ starts = 0

RecIdle ==
    /\ header = NoHeader /\ key_codes = NoKeyCodes /\ location = RectA
    /\ click_opt = FALSE /\ keys = <<>> /\ slurp_last = "none"
    /\ picks = <<>> /\ secs_in = NoInput

PrintIdle == content = <<>> /\ pdf = "absent"

(***************************************************************************)
(* `run` (main.rs, Config::Run) and playback (command.rs, execute).        *)
(***************************************************************************)
InitRun ==
    /\ config = "Run"
    /\ pc = "start" /\ exit = "running" /\ chain = <<>>
    /\ file \in CommandFiles
    /\ overflow_checks \in BOOLEAN
    /\ num_runs \in 0..MaxRuns
    /\ i = 0 /\ idx = 0 /\ phase = "start" /\ curr_image = NoImage
    /\ grim_last = "none" /\ round = 0
    /\ stdout = <<>> /\ invoked = <<>> /\ log = <<>> /\ daemon = "none" /\ starts = 0
    /\ RecIdle /\ PrintIdle

\* serde_json::from_reader(File::open(commandfile)?)?
LoadFile(f) == IF f.exists THEN DeChain(f.doc) ELSE Err

\* let _ydotoold = start_ydotoold();  (spawn().unwrap())
start_ydotoold ==
    /\ pc = "start"
    /\ \E spawned \in BOOLEAN :
         IF spawned
         THEN /\ daemon' = "alive" /\ starts' = starts + 1
              /\ pc' = "load" /\ exit' = exit
         ELSE /\ pc' = "done" /\ exit' = "panic"
              /\ UNCHANGED <<daemon, starts>>
    /\ UNCHANGED <<config, file, chain, overflow_checks, num_runs, i, idx, phase, curr_image, grim_last, round,
                   stdout, invoked, log, recVars, printVars>>

\* Mutant of Leave: main ends without the guard being dropped.
LeaveWithoutDrop(r) == pc' = "done" /\ exit' = r

\* Leaving main's Run arm with result r: by `?`, by a panic that unwinds, or
\* at its end.  The guard _ydotoold is dropped on the way (DropYdotoold).
Leave(r) == pc' = "drop" /\ exit' = r

RunLoad ==
    /\ pc = "load"
    /\ LET r == LoadFile(file)
       IN  IF r.res = "ok"
           THEN chain' = r.v /\ pc' = "loop" /\ exit' = exit
           ELSE chain' = chain /\ Leave(r.res)
    /\ UNCHANGED <<config, file, overflow_checks, runVars, recVars, printVars>>

\* Mutant of RunLoop: the range is inclusive, 0..=num_runs.
RunLoopInclusive ==
    /\ pc = "loop"
    /\ IF i <= num_runs
       THEN /\ stdout' = Append(stdout, <<i + 1, num_runs>>)
            /\ i' = i + 1
            /\ IF chain = <<>>
               THEN pc' = "loop" /\ idx' = idx
               ELSE pc' = "exec" /\ idx' = 1
            /\ exit' = exit
       ELSE /\ pc' = "drop" /\ exit' = "ok"
            /\ UNCHANGED <<stdout, i, idx>>
    /\ UNCHANGED <<config, file, chain, overflow_checks, num_runs, phase, curr_image,
                   grim_last, round, invoked, log, daemon, starts, recVars, printVars>>

\* for i in 0..num_runs { println!(..); chain.execute()?; }
RunLoop ==
    /\ pc = "loop"
    /\ IF i < num_runs
       THEN /\ stdout' = Append(stdout, <<i + 1, num_runs>>)
            /\ i' = i + 1
            /\ IF chain = <<>>
               THEN pc' = "loop" /\ idx' = idx
               ELSE pc' = "exec" /\ idx' = 1
            /\ exit' = exit
       ELSE /\ Leave("ok")
            /\ UNCHANGED <<stdout, i, idx>>
    /\ UNCHANGED <<config, file, chain, overflow_checks, num_runs, phase, curr_image, grim_last, round,
                   invoked, log, daemon, starts, recVars, printVars>>

\* CommandChain::execute: the command at idx returned Ok; go on with the
\* next one, or return Ok to main's loop after the last one.
Completed ==
    /\ phase' = "start"
    /\ exit' = exit
    /\ IF idx < Len(chain)
       THEN idx' = idx + 1 /\ pc' = "exec"
       ELSE idx' = idx /\ pc' = "loop"

\* Mutant of Failed: the rest of the pass is given up and the next pass starts.
FailedNextPass(r) == phase' = "start" /\ idx' = idx /\ pc' = "loop" /\ exit' = exit

\* Mutant of Failed: the error of the command is dropped and the chain goes on.
FailedIgnored(r) == Completed

\* CommandChain::execute: `command.execute()?` failed.
Failed(r) == phase' = "start" /\ idx' = idx /\ Leave(r)

Executing(type) ==
    /\ pc = "exec" /\ idx \in 1..Len(chain) /\ chain[idx].type = type

\* Mutant of ImageEq: only the dimensions are compared.
ImageEqDims(a, b) == a.width = b.width /\ a.height = b.height

\* `&curr_image == image`: ImageBuffer's PartialEq compares the dimensions
\* and the pixel data.
ImageEq(a, b) == a.width = b.width /\ a.height = b.height /\ a.data = b.data

\* Mutant of ExecWaitForImagePoll: the wait gives up at the second capture
\* that differs from the reference.
ExecWaitForImagePollTimeout ==
    /\ Executing("WaitForImage") /\ phase \in {"start", "polling"}
    /\ invoked' = IF phase = "start" THEN Append(invoked, <<i, idx>>) ELSE invoked
    /\ \E grim \in GrimOutputs :
         LET shot == take_screenshot(chain[idx].location, grim)
         IN  /\ grim_last' = grim.status /\ round' = 1 - round
             /\ IF shot.res # "ok"
                THEN Failed(shot.res) /\ curr_image' = curr_image
                ELSE IF ~shot.v.some
                THEN /\ phase' = "polling" /\ curr_image' = curr_image
                     /\ UNCHANGED <<pc, exit, idx>>
                ELSE /\ curr_image' = shot.v.image
                     /\ IF ImageEq(shot.v.image, chain[idx].image)
                        THEN IF chain[idx].click
                             THEN phase' = "matched" /\ UNCHANGED <<pc, exit, idx>>
                             ELSE Completed
                        ELSE IF phase = "polling" THEN Failed("err")
                        ELSE phase' = "polling" /\ UNCHANGED <<pc, exit, idx>>
    /\ UNCHANGED <<config, file, chain, overflow_checks, num_runs, i, stdout, log,
                   daemon, starts, recVars, printVars>>

\* Command::execute, WaitForImage: one round of the loop.
ExecWaitForImagePoll ==
    /\ Executing("WaitForImage") /\ phase \in {"start", "polling"}
    /\ invoked' = IF phase = "start" THEN Append(invoked, <<i, idx>>) ELSE invoked
    /\ \E grim \in GrimOutputs :
         LET shot == take_screenshot(chain[idx].location, grim)
         IN  /\ grim_last' = grim.status /\ round' = 1 - round
             /\ IF shot.res # "ok"
                THEN Failed(shot.res) /\ curr_image' = curr_image
                ELSE IF ~shot.v.some
                THEN /\ phase' = "polling" /\ curr_image' = curr_image
                     /\ UNCHANGED <<pc, exit, idx>>
                ELSE /\ curr_image' = shot.v.image
                     /\ IF ImageEq(shot.v.image, chain[idx].image)
                        THEN IF chain[idx].click
                             THEN phase' = "matched" /\ UNCHANGED <<pc, exit, idx>>
                             ELSE Completed
                        ELSE phase' = "polling" /\ UNCHANGED <<pc, exit, idx>>
    /\ UNCHANGED <<config, file, chain, overflow_checks, num_runs, i, stdout, log,
                   daemon, starts, recVars, printVars>>

\* Command::execute, WaitForImage: if *click { ydotool::click(location.center())? }
ExecWaitForImageClick ==
    /\ Executing("WaitForImage") /\ phase = "matched"
    /\ LET c == center(chain[idx].location, overflow_checks)
       IN  IF c.panic
           THEN Failed("panic") /\ log' = log
           ELSE \E ms \in ProcStatus, cs \in ProcStatus :
                  LET r == click(c.pos, ms, cs)
                  IN  /\ log' = log \o r.calls
                      /\ IF r.ok THEN Completed ELSE Failed("err")
    /\ UNCHANGED <<config, file, chain, overflow_checks, num_runs, i, curr_image, grim_last, round, stdout,
                   invoked, daemon, starts, recVars, printVars>>

ExecSleep ==
    /\ Executing("Sleep") /\ phase = "start"
    /\ invoked' = Append(invoked, <<i, idx>>)
    /\ log' = Append(log, Call("thread", <<"sleep", chain[idx].duration>>, "exit_ok"))
    /\ Completed
    /\ UNCHANGED <<config, file, chain, overflow_checks, num_runs, i, curr_image, grim_last, round, stdout,
                   daemon, starts, recVars, printVars>>

\* bash -c command; a status that is not success is an error.
ExecShell ==
    /\ Executing("Shell") /\ phase = "start"
    /\ invoked' = Append(invoked, <<i, idx>>)
    /\ \E status \in ProcStatus :
         /\ log' = Append(log, Call("bash", <<"-c", chain[idx].command>>, status))
         /\ IF status = "exit_ok" THEN Completed ELSE Failed("err")
    /\ UNCHANGED <<config, file, chain, overflow_checks, num_runs, i, curr_image, grim_last, round, stdout,
                   daemon, starts, recVars, printVars>>

ExecPressKeys ==
    /\ Executing("PressKeys") /\ phase = "start"
    /\ invoked' = Append(invoked, <<i, idx>>)
    /\ \E status \in ProcStatus :
         LET r == press_keys(chain[idx].keys, status)
         IN  /\ log' = log \o r.calls
             /\ IF r.ok THEN Completed ELSE Failed("err")
    /\ UNCHANGED <<config, file, chain, overflow_checks, num_runs, i, curr_image, grim_last, round,
                   stdout, daemon, starts, recVars, printVars>>

ExecType ==
    /\ Executing("Type") /\ phase = "start"
    /\ invoked' = Append(invoked, <<i, idx>>)
    /\ \E status \in ProcStatus :
         LET r == ydotool_type(chain[idx].text, status)
         IN  /\ log' = log \o r.calls
             /\ IF r.ok THEN Completed ELSE Failed("err")
    /\ UNCHANGED <<config, file, chain, overflow_checks, num_runs, i, curr_image, grim_last, round,
                   stdout, daemon, starts, recVars, printVars>>

ExecMouseMove ==
    /\ Executing("MouseMove") /\ phase = "start"
    /\ invoked' = Append(invoked, <<i, idx>>)
    /\ \E status \in ProcStatus :
         LET r == move_mouse(chain[idx].position, status)
         IN  /\ log' = log \o r.calls
             /\ IF r.ok THEN Completed ELSE Failed("err")
    /\ UNCHANGED <<config, file, chain, overflow_checks, num_runs, i, curr_image, grim_last, round,
                   stdout, daemon, starts, recVars, printVars>>

ExecClick ==
    /\ Executing("Click") /\ phase = "start"
    /\ invoked' = Append(invoked, <<i, idx>>)
    /\ \E ms \in ProcStatus, cs \in ProcStatus :
         LET r == click(chain[idx].position, ms, cs)
         IN  /\ log' = log \o r.calls
             /\ IF r.ok THEN Completed ELSE Failed("err")
    /\ UNCHANGED <<config, file, chain, overflow_checks, num_runs, i, curr_image, grim_last, round, stdout,
                   daemon, starts, recVars, printVars>>

\* impl Drop for KillOnDrop: the guard goes out of scope, the daemon is
\* killed, and main returns what it was returning.
DropYdotoold ==
    /\ pc = "drop"
    /\ daemon' = "killed"
    /\ pc' = "done"
    /\ UNCHANGED <<config, exit, file, chain, overflow_checks, num_runs, i, idx, phase,
                   curr_image, grim_last, round, stdout, invoked, log, starts, recVars, printVars>>

NextRun ==
    \/ start_ydotoold
    \/ RunLoad
    \/ RunLoop
    \/ ExecWaitForImagePoll
    \/ ExecWaitForImageClick
    \/ ExecSleep
    \/ ExecShell
    \/ ExecPressKeys
    \/ ExecType
    \/ ExecClick
    \/ ExecMouseMove
    \/ DropYdotoold

SpecRun == InitRun /\ [][NextRun]_vars

\* The run with its scheduling: the loop of WaitForImage does not block, so
\* while it is in the loop it captures again, and the click that follows a
\* match is made.
SpecRunFair ==
    SpecRun /\ WF_vars(ExecWaitForImagePoll) /\ WF_vars(ExecWaitForImageClick)

(***************************************************************************)
(* `record` (main.rs, Config::Record) and CommandChain::record.            *)
(***************************************************************************)
\* What slurp can do: not start, be cancelled, print a selection, print
\* something else.
SlurpOutputs ==
    {[status |-> "spawn_error", stdout |-> <<>>],
     [status |-> "exit_nonzero", stdout |-> <<>>],
     [status |-> "exit_ok", stdout |-> <<49, 48, 44, 50, 48, 32, 53, 120, 55, 10>>],
     [status |-> "exit_ok", stdout |-> <<49, 48, 44, 50, 48, 32, 53, 120, 56, 160, 10>>],
     [status |-> "exit_ok", stdout |-> <<49, 48, 44, 50, 48, 10>>]}

\* The header: KEY_ESC 1, KEY_ENTER 28, a hexadecimal KEY_OK, a BTN_ line.
SampleHeader ==
    [available |-> TRUE,
     lines |-> <<Line(KeyPrefix \o <<69, 83, 67, 9, 9, 49>>),
                 Line(KeyPrefix \o <<69, 78, 84, 69, 82, 9, 50, 56>>),
                 Line(KeyPrefix \o <<79, 75, 9, 48, 120, 49, 54, 48>>),
                 Line(<<35, 100, 101, 102, 105, 110, 101, 32, 66, 84, 78, 95, 48, 9, 48>>)>>]

\* A header in which names are not in order, several names have the same
\* number, one name is a prefix of another and one name is defined twice:
\* KEY_ZED 29, KEY_LEFTCTRL 29, KEY_Left 29, KEY_LEFTALT 1, KEY_LEFTALT 56.
AliasHeader ==
    [available |-> TRUE,
     lines |-> <<Line(KeyPrefix \o <<90, 69, 68, 9, 50, 57>>),
                 Line(KeyPrefix \o <<76, 69, 70, 84, 67, 84, 82, 76, 9, 50, 57>>),
                 Line(KeyPrefix \o <<76, 101, 102, 116, 9, 50, 57>>),
                 Line(KeyPrefix \o <<76, 69, 70, 84, 65, 76, 84, 9, 49>>),
                 Line(KeyPrefix \o <<76, 69, 70, 84, 65, 76, 84, 9, 53, 54>>)>>]

\* A header with characters outside ASCII: KEY_NB, a no-break space, 2 and
\* a further field; KEY_<U+00C9>T<U+00C9> 1; KEY_<U+0130> 5;
\* KEY_<U+039F><U+03A3><U+039F><U+03A3> 7, with a sigma inside and a sigma
\* at the end of the word; and KEY_<U+0181> 5 before KEY_<U+0253> 6, the
\* same name once lowercased.
UnicodeHeader ==
    [available |-> TRUE,
     lines |-> <<Line(KeyPrefix \o <<78, 66, 160, 50, 32, 51>>),
                 Line(KeyPrefix \o <<201, 84, 201, 32, 49>>),
                 Line(KeyPrefix \o <<304, 32, 53>>),
                 Line(KeyPrefix \o <<927, 931, 927, 931, 32, 55>>),
                 Line(KeyPrefix \o <<385, 32, 53>>),
                 Line(KeyPrefix \o <<595, 32, 54>>)>>]

\* A header with a line that is not UTF-8 between two lines that are.
BrokenHeader ==
    [available |-> TRUE,
     lines |-> <<Line(KeyPrefix \o <<69, 83, 67, 32, 49>>),
                 BadLine,
                 Line(KeyPrefix \o <<69, 78, 84, 69, 82, 32, 50, 56>>)>>]

Headers == {NoHeader, SampleHeader, AliasHeader, UnicodeHeader, BrokenHeader}

\* What a text prompt returns: an I/O error or the line entered.
TextInputs == {[ok |-> FALSE, text |-> ""], [ok |-> TRUE, text |-> "hi"]}
ShellInputs == {[ok |-> FALSE, text |-> ""], [ok |-> TRUE, text |-> "make"]}

\* What the f64 prompt returns: an I/O error, or a value.  A finite value
\* below 2^64 is (secs + nanos / 10^9), negated when neg.  huge marks a
\* finite value of 2^64 or more (10^20 is one), whose secs and nanos are 0
\* and say nothing about it.
F64(class, neg, secs, nanos, huge) ==
    [ok |-> TRUE, class |-> class, neg |-> neg, secs |-> secs, nanos |-> nanos,
     huge |-> huge]

SleepInputs ==
    {[ok |-> FALSE, class |-> "num", neg |-> FALSE, secs |-> 0, nanos |-> 0,
      huge |-> FALSE],
     F64("nan", FALSE, 0, 0, FALSE), F64("inf", FALSE, 0, 0, FALSE),
     F64("num", TRUE, 1, 500000000, FALSE), F64("num", TRUE, 0, 0, FALSE),
     F64("num", FALSE, 0, 0, FALSE), F64("num", FALSE, 1, 500000000, FALSE),
     F64("num", FALSE, 0, 0, TRUE)}

is_finite(f) == f.class = "num"
is_sign_positive(f) == ~f.neg

\* Duration::from_secs_f64 panics when the value is negative, not finite or
\* does not fit: its whole seconds are 2^64 or more.
from_secs_f64(f) ==
    IF ~is_finite(f) \/ (f.neg /\ f.secs + f.nanos > 0) \/ f.huge
    THEN Panic
    ELSE Ok([secs |-> f.secs, nanos |-> f.nanos])

InitRecord ==
    /\ config = "Record"
    /\ pc = "record" /\ exit = "running" /\ chain = <<>>
    /\ file \in {NoFile, FileOf(SerChain(<<Shell("make")>>).v)}
    /\ overflow_checks = FALSE
    /\ header \in Headers
    /\ key_codes = NoKeyCodes /\ location = RectA /\ click_opt = FALSE /\ keys = <<>>
    /\ slurp_last = "none" /\ picks = <<>> /\ secs_in = NoInput
    /\ RunIdle /\ PrintIdle

\* CommandChain::record()? failed: main returns without touching the file.
Fatal(r) == pc' = "done" /\ exit' = r

\* Mutant of Push: the command is put in front of the chain.
PushFront(command) == chain' = <<command>> \o chain /\ pc' = "menu"

\* commands.push(command), and back to the menu.
Push(command) == chain' = Append(chain, command) /\ pc' = "menu"

RecUnchanged == UNCHANGED <<config, file, overflow_checks, header, runVars, printVars>>

\* Mutant of RecordStart: the command file is created before the recording.
RecordStartCreatesFile ==
    /\ pc = "record"
    /\ file' = InvalidFile
    /\ LET r == KeyCodes_new(header)
       IN  IF r.res = "ok"
           THEN key_codes' = r.v /\ pc' = "menu" /\ exit' = exit
           ELSE key_codes' = key_codes /\ Fatal(r.res)
    /\ UNCHANGED <<chain, location, click_opt, keys>>
    /\ UNCHANGED <<slurp_last, picks, secs_in>>
    /\ UNCHANGED <<config, overflow_checks, header, runVars, printVars>>

\* let key_codes = KeyCodes::new()?;
RecordStart ==
    /\ pc = "record"
    /\ LET r == KeyCodes_new(header)
       IN  IF r.res = "ok"
           THEN key_codes' = r.v /\ pc' = "menu" /\ exit' = exit
           ELSE key_codes' = key_codes /\ Fatal(r.res)
    /\ UNCHANGED <<chain, location, click_opt, keys>>
    /\ UNCHANGED <<slurp_last, picks, secs_in>>
    /\ RecUnchanged

AtMenu == pc = "menu" /\ Len(chain) < MaxChainLen

\* The menu prompt fails with an I/O error.
SelectIoError ==
    /\ pc = "menu"
    /\ Fatal("err")
    /\ UNCHANGED <<chain, key_codes, location, click_opt, keys>>
    /\ slurp_last' = "none" /\ picks' = picks /\ secs_in' = NoInput
    /\ RecUnchanged

\* "wait for image and click" | "wait for image": Command::wait_for_image up
\* to the region selection.
SelectWaitForImage ==
    /\ AtMenu
    /\ \E clk \in BOOLEAN, slurp \in SlurpOutputs :
         /\ slurp_last' = slurp.status /\ picks' = picks /\ secs_in' = NoInput
         /\ LET r == query_rect(FALSE, slurp)
            IN  IF r.res # "ok"
                THEN Fatal(r.res) /\ UNCHANGED <<location, click_opt>>
                ELSE IF ~r.v.some
                THEN UNCHANGED <<pc, exit, location, click_opt>>
                ELSE /\ location' = r.v.v /\ click_opt' = clk
                     /\ pc' = "confirm" /\ exit' = exit
    /\ UNCHANGED <<chain, key_codes, keys>>
    /\ RecUnchanged

\* while !Confirm::new()...interact()? {}
ConfirmImage ==
    /\ pc = "confirm"
    /\ \E answer \in {"yes", "no", "io_error"} :
         CASE answer = "yes" -> pc' = "shot" /\ exit' = exit
           [] answer = "no" -> UNCHANGED <<pc, exit>>
           [] answer = "io_error" -> Fatal("err")
    /\ UNCHANGED <<chain, key_codes, location, click_opt, keys>>
    /\ UNCHANGED <<slurp_last, picks, secs_in>>
    /\ RecUnchanged

\* let Some(image) = take_screenshot(location)? else { return Ok(None) };
CaptureReference ==
    /\ pc = "shot"
    /\ \E grim \in GrimOutputs :
         LET shot == take_screenshot(location, grim)
         IN  IF shot.res # "ok" THEN Fatal(shot.res) /\ chain' = chain
             ELSE IF ~shot.v.some THEN pc' = "menu" /\ UNCHANGED <<exit, chain>>
             ELSE Push(WaitForImage(location, shot.v.image, click_opt)) /\ exit' = exit
    /\ UNCHANGED <<key_codes, location, click_opt, keys>>
    /\ UNCHANGED <<slurp_last, picks, secs_in>>
    /\ RecUnchanged

\* "click" => query_rect(true)?.map(|rect| Command::Click { position: rect.origin() })
SelectClick ==
    /\ AtMenu
    /\ \E slurp \in SlurpOutputs :
         /\ slurp_last' = slurp.status /\ picks' = picks /\ secs_in' = NoInput
         /\ LET r == query_rect(TRUE, slurp)
            IN  IF r.res # "ok" THEN Fatal(r.res) /\ chain' = chain
                ELSE IF ~r.v.some THEN UNCHANGED <<pc, exit, chain>>
                ELSE Push(Click(origin(r.v.v))) /\ exit' = exit
    /\ UNCHANGED <<key_codes, location, click_opt, keys>>
    /\ RecUnchanged

SelectMouseMove ==
    /\ AtMenu
    /\ \E slurp \in SlurpOutputs :
         /\ slurp_last' = slurp.status /\ picks' = picks /\ secs_in' = NoInput
         /\ LET r == query_rect(TRUE, slurp)
            IN  IF r.res # "ok" THEN Fatal(r.res) /\ chain' = chain
                ELSE IF ~r.v.some THEN UNCHANGED <<pc, exit, chain>>
                ELSE Push(MouseMove(origin(r.v.v))) /\ exit' = exit
    /\ UNCHANGED <<key_codes, location, click_opt, keys>>
    /\ RecUnchanged

\* "press keys" => { let mut keys = Vec::new(); ...
SelectPressKeys ==
    /\ AtMenu
    /\ keys' = <<>> /\ picks' = <<>> /\ pc' = "keys"
    /\ UNCHANGED <<exit, chain, key_codes, location, click_opt>>
    /\ slurp_last' = "none" /\ secs_in' = NoInput
    /\ RecUnchanged

\* One pick from the list: if let Some(key) = key_codes.get_num(index) { keys.push(key) }
PickKey ==
    /\ pc = "keys" /\ Len(keys) < MaxKeys /\ Len(picks) < MaxKeys
    /\ \E index \in 0..(Len(codes(key_codes)) - 1) :
         LET key == get_num(key_codes, index)
         IN  /\ keys' = IF key.some THEN Append(keys, key.v) ELSE keys
             /\ picks' = Append(picks, index)
    /\ UNCHANGED <<pc, exit, chain, key_codes, location, click_opt>>
    /\ UNCHANGED <<slurp_last, secs_in>>
    /\ RecUnchanged

\* Mutant of FinishKeys: finishing without a key discards the command.
FinishKeysDiscardsEmpty ==
    /\ pc = "keys"
    /\ \E input \in {"esc", "io_error"} :
         IF input = "esc"
         THEN IF keys = <<>>
              THEN pc' = "menu" /\ UNCHANGED <<exit, chain>>
              ELSE Push(PressKeys(keys)) /\ exit' = exit
         ELSE Fatal("err") /\ chain' = chain
    /\ UNCHANGED <<key_codes, location, click_opt, keys>>
    /\ picks' = <<>> /\ UNCHANGED <<slurp_last, secs_in>>
    /\ RecUnchanged

\* interact_opt()? returns None (ESC) and the loop ends, or fails.
FinishKeys ==
    /\ pc = "keys"
    /\ \E input \in {"esc", "io_error"} :
         IF input = "esc"
         THEN Push(PressKeys(keys)) /\ exit' = exit
         ELSE Fatal("err") /\ chain' = chain
    /\ UNCHANGED <<key_codes, location, click_opt, keys>>
    /\ picks' = <<>> /\ UNCHANGED <<slurp_last, secs_in>>
    /\ RecUnchanged

SelectTypeText ==
    /\ AtMenu
    /\ \E input \in TextInputs :
         IF input.ok THEN Push(Type(input.text)) /\ exit' = exit
         ELSE Fatal("err") /\ chain' = chain
    /\ UNCHANGED <<key_codes, location, click_opt, keys>>
    /\ slurp_last' = "none" /\ picks' = picks /\ secs_in' = NoInput
    /\ RecUnchanged

SelectShell ==
    /\ AtMenu
    /\ \E input \in ShellInputs :
         IF input.ok THEN Push(Shell(input.text)) /\ exit' = exit
         ELSE Fatal("err") /\ chain' = chain
    /\ UNCHANGED <<key_codes, location, click_opt, keys>>
    /\ slurp_last' = "none" /\ picks' = picks /\ secs_in' = NoInput
    /\ RecUnchanged

SelectSleep ==
    /\ AtMenu
    /\ pc' = "sleep"
    /\ UNCHANGED <<exit, chain, key_codes, location, click_opt, keys>>
    /\ slurp_last' = "none" /\ picks' = picks /\ secs_in' = NoInput
    /\ RecUnchanged

\* One round of the sleep prompt: an input that is an error, not finite or
\* of negative sign is asked for again.
SleepInput ==
    /\ pc = "sleep"
    /\ \E input \in SleepInputs :
         /\ secs_in' = input
         /\ IF input.ok /\ is_finite(input) /\ is_sign_positive(input)
            THEN LET d == from_secs_f64(input)
                 IN  IF d.res = "ok"
                     THEN Push([type |-> "Sleep", duration |-> d.v]) /\ exit' = exit
                     ELSE Fatal(d.res) /\ chain' = chain
            ELSE UNCHANGED <<pc, exit, chain>>
    /\ UNCHANGED <<key_codes, location, click_opt, keys>>
    /\ UNCHANGED <<slurp_last, picks>>
    /\ RecUnchanged

\* "exit run" => break
SelectExit ==
    /\ pc = "menu"
    /\ pc' = "write"
    /\ UNCHANGED <<exit, chain, key_codes, location, click_opt, keys>>
    /\ slurp_last' = "none" /\ picks' = picks /\ secs_in' = NoInput
    /\ RecUnchanged

\* serde_json::to_writer_pretty(File::create(commandfile)?, &chain)?
\* The file is created (emptied) first, then written.
RecordWrite ==
    /\ pc = "write"
    /\ \E io \in {"create_error", "write_error", "ok"} :
         LET ser == SerChain(chain)
         IN  CASE io = "create_error" -> file' = file /\ Fatal("err")
               [] io = "write_error" -> file' = InvalidFile /\ Fatal("err")
               [] io = "ok" ->
                    IF ser.res = "ok"
                    THEN file' = FileOf(ser.v) /\ pc' = "done" /\ exit' = "ok"
                    ELSE file' = InvalidFile /\ Fatal(ser.res)
    /\ UNCHANGED <<config, chain, overflow_checks, runVars, recVars, printVars>>

NextRecord ==
    \/ RecordStart
    \/ SelectIoError
    \/ SelectWaitForImage
    \/ ConfirmImage
    \/ CaptureReference
    \/ SelectClick
    \/ SelectMouseMove
    \/ SelectPressKeys
    \/ PickKey
    \/ FinishKeys
    \/ SelectTypeText
    \/ SelectShell
    \/ SelectSleep
    \/ SleepInput
    \/ SelectExit
    \/ RecordWrite

SpecRecord == InitRecord /\ [][NextRecord]_vars

(***************************************************************************)
(* `print` (main.rs, Config::Print) and CommandChain::to_pdf.              *)
(***************************************************************************)
\* "<unknown key>"
UnknownKey == <<60, 117, 110, 107, 110, 111, 119, 110, 32, 107, 101, 121, 62>>

\* The number of WaitForImage commands before position k: its img_idx.
ImgIdx(commands, k) ==
    Cardinality({j \in 1..(k - 1) : commands[j].type = "WaitForImage"})

\* The block of markup of one command: its fixed text and the values
\* formatted into it.
Block(commands, k, kc) ==
    LET c == commands[k]
    IN  CASE c.type = "WaitForImage" ->
               <<IF c.click THEN "== wait for and click on image at "
                            ELSE "== wait for image at ",
                 c.location, "#image", ImgIdx(commands, k)>>
          [] c.type = "Sleep" -> <<"== sleep for ", c.duration>>
          [] c.type = "Shell" -> <<"== run shell command", "bash", c.command>>
          [] c.type = "PressKeys" ->
               <<"== pressing keys",
                 [j \in 1..Len(c.keys) |->
                    LET name == reverse_lookup(kc, c.keys[j])
                    IN  IF name.some THEN name.v ELSE UnknownKey]>>
          [] c.type = "Type" -> <<"== type text", "text", c.text>>
          [] c.type = "Click" -> <<"== click at ", c.position>>
          [] c.type = "MouseMove" -> <<"== move mouse to ", c.position>>

InitPrint ==
    /\ config = "Print"
    /\ pc = "print" /\ exit = "running" /\ chain = <<>>
    /\ file \in CommandFiles
    /\ overflow_checks = FALSE
    /\ header \in Headers
    /\ key_codes = NoKeyCodes /\ location = RectA /\ click_opt = FALSE /\ keys = <<>>
    /\ slurp_last = "none" /\ picks = <<>> /\ secs_in = NoInput
    /\ RunIdle /\ PrintIdle

PrintUnchanged ==
    UNCHANGED <<config, file, overflow_checks, header, location, click_opt, keys,
                slurp_last, picks, secs_in, num_runs, i, idx, phase, curr_image, grim_last, round, stdout, invoked, daemon, starts>>

\* let chain = serde_json::from_reader(File::open(commandfile)?)?;
PrintLoad ==
    /\ pc = "print"
    /\ LET r == LoadFile(file)
       IN  IF r.res = "ok"
           THEN chain' = r.v /\ pc' = "to_pdf" /\ exit' = exit
           ELSE chain' = chain /\ pc' = "done" /\ exit' = r.res
    /\ UNCHANGED <<key_codes, log, content, pdf>>
    /\ PrintUnchanged

\* to_pdf up to std::fs::write(&path, content)?: the key codes, the
\* temporary directory, the blocks (and the images saved), joined.typ.
ToPdfRender ==
    /\ pc = "to_pdf"
    /\ LET kc == KeyCodes_new(header)
       IN  IF kc.res # "ok"
           THEN /\ pc' = "done" /\ exit' = kc.res
                /\ UNCHANGED <<key_codes, content>>
           ELSE /\ key_codes' = kc.v
                /\ \E io \in {"tempdir_error", "save_error", "write_error", "ok"} :
                     IF io = "ok"
                        \/ (io = "save_error"
                            /\ \A k \in 1..Len(chain) : chain[k].type # "WaitForImage")
                     THEN /\ content' = [k \in 1..Len(chain) |-> Block(chain, k, kc.v)]
                          /\ pc' = "compile" /\ exit' = exit
                     ELSE /\ content' = content
                          /\ pc' = "done" /\ exit' = "err"
    /\ UNCHANGED <<chain, log, pdf>>
    /\ PrintUnchanged

\* Command::new("typst").arg("compile")...output()?;  Ok(())
\* Only a typst that cannot be started is an error; its exit status is not
\* looked at.
ToPdfCompile ==
    /\ pc = "compile"
    /\ \E status \in ProcStatus :
         /\ log' = Append(log, Call("typst", <<"compile", "joined.typ", "output">>, status))
         /\ pdf' = IF status = "exit_ok" THEN "written" ELSE pdf
         /\ exit' = IF status = "spawn_error" THEN "err" ELSE "ok"
    /\ pc' = "done"
    /\ UNCHANGED <<chain, key_codes, content>>
    /\ PrintUnchanged

NextPrint ==
    \/ PrintLoad
    \/ ToPdfRender
    \/ ToPdfCompile

SpecPrint == InitPrint /\ [][NextPrint]_vars

(***************************************************************************)
(* main(): one of the three subcommands.                                   *)
(***************************************************************************)
Init == InitRun \/ InitRecord \/ InitPrint

Next == NextRun \/ NextRecord \/ NextPrint

Spec == Init /\ [][Next]_vars

(***************************************************************************)
(* Properties.                                                             *)
(***************************************************************************)
IsPrefix(a, b) == Len(a) <= Len(b) /\ SubSeq(b, 1, Len(a)) = a

AllOk(calls) == \A k \in 1..Len(calls) : calls[k].status = "exit_ok"

\* The calls a step added to the log.
Added == SubSeq(log', Len(log) + 1, Len(log'))

\* The k-th Command::execute call of a run is that of command
\* ((k-1) mod K) + 1 in pass ((k-1) div K) + 1, K the length of the chain.
InvokedInOrder ==
    \A k \in 1..Len(invoked) :
      /\ chain # <<>>
      /\ invoked[k] = <<((k - 1) \div Len(chain)) + 1, ((k - 1) % Len(chain)) + 1>>

\* C1: CommandChain::execute runs the commands in chain order, one at a time:
\* a command is invoked only while nothing has failed and the command before
\* it has returned; a step in which a process of a command fails (a shell
\* command that exits non-zero included) makes main leave with that error;
\* once main is leaving nothing more is invoked or run; and the log of what
\* was done only ever grows (nothing is undone).
C1_FailFast ==
    [][/\ InvokedInOrder'
       /\ invoked' # invoked =>
            /\ exit = "running" /\ phase = "start" /\ AllOk(log)
            /\ Len(invoked') = Len(invoked) + 1
       /\ ~AllOk(Added) => exit' = "err" /\ pc' = "drop"
       /\ (\E k \in 1..Len(Added) :
             Added[k].exe = "bash" /\ Added[k].status = "exit_nonzero")
            => exit' = "err" /\ pc' = "drop"
       /\ exit # "running" => invoked' = invoked /\ log' = log
       /\ IsPrefix(log, log')]_vars

\* A shell command fails as the first command of the second pass of a chain
\* of two, after the first pass has had its effects.
C1_Witness ==
    /\ pc = "done" /\ exit = "err" /\ num_runs = 2
    /\ Len(chain) = 2 /\ chain[1].type = "Shell"
    /\ invoked = <<<<1, 1>>, <<1, 2>>, <<2, 1>>>>
    /\ Len(log) >= 3 /\ log[1].status = "exit_ok"
    /\ log[Len(log)].exe = "bash" /\ log[Len(log)].status = "exit_nonzero"

\* C2: a WaitForImage command gets past its wait (to its click, or to the
\* next command) only in a step whose capture is identical to the reference
\* image; with a capture that differs it stays in the loop; and it runs
\* ydotool only while the latest capture is identical to the reference.
C2_WaitEndsOnlyOnMatch ==
    [][/\ (/\ Executing("WaitForImage") /\ phase \in {"start", "polling"}
           /\ exit' = "running"
           /\ (phase' = "matched" \/ pc' # "exec" \/ idx' # idx))
            => /\ curr_image' = chain[idx].image
               /\ curr_image'.width = chain[idx].image.width
               /\ curr_image'.height = chain[idx].image.height
               /\ curr_image'.data = chain[idx].image.data
       /\ (/\ Executing("WaitForImage") /\ phase \in {"start", "polling"}
           /\ exit' = "running"
           /\ curr_image' # chain[idx].image)
            => phase' = "polling" /\ pc' = "exec" /\ idx' = idx
       /\ (Executing("WaitForImage") /\ log' # log)
            => phase = "matched" /\ curr_image = chain[idx].image]_vars

\* The first wait of a chain was passed and the second one goes on after a
\* capture of other dimensions than its reference.
C2_Witness ==
    /\ pc = "exec" /\ idx = 2 /\ phase = "polling"
    /\ chain[1].type = "WaitForImage" /\ chain[2].type = "WaitForImage"
    /\ curr_image.width # chain[2].image.width

\* C3: the ydotool call of a PressKeys command carries one press per key in
\* the listed order, then one release per key in the reverse order, and
\* nothing else; for an empty list it carries no press and no release.
C3_PressKeysOrder ==
    [][Executing("PressKeys") /\ log' # log =>
         LET ks == chain[idx].keys
             args == log'[Len(log')].args
         IN  /\ Len(log') = Len(log) + 1
             /\ args[1] = "key"
             /\ Len(args) = 1 + 2 * Len(ks)
             /\ \A k \in 1..Len(ks) :
                  /\ args[1 + k] = <<ks[k], 1>>
                  /\ args[1 + Len(ks) + k] = <<ks[Len(ks) + 1 - k], 0>>]_vars

\* A chain pressed no key and then three keys.
C3_Witness ==
    /\ Len(log) = 2
    /\ log[1].args = <<"key">>
    /\ log[2].args = <<"key", <<U32(29), 1>>, <<U32(56), 1>>, <<U32(111), 1>>,
                       <<U32(111), 0>>, <<U32(56), 0>>, <<U32(29), 0>>>>

\* C4: at every moment of a run the progress lines printed are "Starting run
\* 1/N" .. "Starting run L/N" with L <= N, the invocations made are the
\* first ones of the N passes in order, and their number lies between
\* (L-1)*k and L*k (line L comes after the last command of pass L-1 and
\* before the first of pass L); a run that ends with success has made
\* exactly N*k invocations and printed N lines (none of either for N = 0).
C4_RunCount ==
    config = "Run" =>
      /\ Len(stdout) <= num_runs
      /\ \A j \in 1..Len(stdout) : stdout[j] = <<j, num_runs>>
      /\ InvokedInOrder
      /\ Len(invoked) <= Len(stdout) * Len(chain)
      /\ Len(stdout) >= 1 => Len(invoked) >= (Len(stdout) - 1) * Len(chain)
      /\ (pc = "done" /\ exit = "ok") =>
           /\ Len(invoked) = num_runs * Len(chain)
           /\ Len(stdout) = num_runs

\* Two passes of a chain of two commands ended with success.
C4_Witness ==
    /\ pc = "done" /\ exit = "ok" /\ num_runs = 2 /\ Len(chain) = 2
    /\ Len(invoked) = 4 /\ stdout = <<<<1, 2>>, <<2, 2>>>>

\* C5: ydotoold is spawned at most once; it is alive whenever the chain is
\* being loaded or executed, so it was started before the load and before
\* any command; and when main has ended it is not alive: it was killed on
\* every path that follows its start.
C5_DaemonScoped ==
    config = "Run" =>
      /\ starts <= 1
      /\ pc \in {"load", "loop", "exec", "drop"} => daemon = "alive" /\ starts = 1
      /\ pc = "start" => chain = <<>> /\ invoked = <<>> /\ starts = 0
      /\ (chain # <<>> \/ invoked # <<>> \/ stdout # <<>>) => starts = 1
      /\ pc = "done" => /\ daemon # "alive"
                        /\ starts = 1 => daemon = "killed"
                        /\ starts = 0 => exit = "panic" /\ daemon = "none"

\* A run ended because a command failed in its second pass.
C5_Witness ==
    /\ pc = "done" /\ exit = "err" /\ daemon = "killed" /\ starts = 1
    /\ Len(stdout) = 2 /\ invoked # <<>>

\* C9 (the claim as stated): a capture that fails (grim runs and ends with a
\* failure) is "no image yet": the loop polls again, and the chain does not
\* fail; only a capture that cannot be made at all (grim cannot be started)
\* ends the wait with an error, without a click and without a later command.
C9_CaptureFailurePollsAgain ==
    [][/\ (/\ Executing("WaitForImage") /\ phase \in {"start", "polling"}
           /\ grim_last' = "exit_nonzero")
            => /\ pc' = "exec" /\ idx' = idx /\ phase' = "polling"
               /\ exit' = "running"
       /\ (/\ Executing("WaitForImage") /\ phase \in {"start", "polling"}
           /\ grim_last' = "spawn_error")
            => exit' = "err" /\ pc' = "drop" /\ log' = log
       /\ exit # "running" => invoked' = invoked /\ log' = log]_vars

\* C6: every chain the recorder holds serializes, and deserializing the
\* result gives a chain of the same length whose k-th command has the same
\* variant and equal fields (images pixel for pixel, key lists in order,
\* durations); and the file a recording has written loads as that chain.
C6_RoundTrip ==
    config = "Record" =>
      LET ser == SerChain(chain)
          back == DeChain(ser.v)
      IN  /\ ser.res = "ok"
          /\ back.res = "ok"
          /\ Len(back.v) = Len(chain)
          /\ \A k \in 1..Len(chain) :
               /\ back.v[k].type = chain[k].type
               /\ back.v[k] = chain[k]
          /\ (pc = "done" /\ exit = "ok") =>
               /\ LoadFile(file).res = "ok"
               /\ LoadFile(file).v = chain

\* A recording of a wait for an image and of two keys was written.
C6_Witness ==
    /\ config = "Record" /\ pc = "done" /\ exit = "ok"
    /\ Len(chain) = 2
    /\ chain[1].type = "WaitForImage" /\ chain[1].image = ImgC
    /\ chain[2].type = "PressKeys" /\ Len(chain[2].keys) = 2
    /\ file.exists

\* C7: a menu choice whose selection with slurp is cancelled (slurp ends
\* with a failure status) leaves the chain as it was, does not end the
\* recording and is followed by the menu again.
C7_CancelDiscards ==
    [][(config = "Record" /\ pc = "menu" /\ slurp_last' = "exit_nonzero")
         => chain' = chain /\ pc' = "menu" /\ exit' = "running"]_vars

\* A selection was cancelled after one command had been recorded.
C7_Witness ==
    /\ config = "Record" /\ pc = "menu" /\ exit = "running"
    /\ slurp_last = "exit_nonzero" /\ Len(chain) = 1

\* C8: a recording starts with an empty chain; a step of a recording leaves
\* the chain as it is or appends exactly one command at its end, what was in
\* it staying in place and as it was; a step of a run after the load leaves
\* the chain as it is.
C8_ChainOnlyAppended ==
    [][/\ (config = "Record" /\ pc = "record") => chain = <<>>
       /\ config = "Record" =>
            \/ chain' = chain
            \/ /\ Len(chain') = Len(chain) + 1
               /\ \A k \in 1..Len(chain) :
                    chain'[k].type = chain[k].type /\ chain'[k] = chain[k]
               /\ pc' = "menu"
       /\ (config = "Run" /\ pc # "load") => chain' = chain]_vars

\* Two commands of different variants were recorded one after the other.
C8_Witness ==
    /\ config = "Record" /\ pc = "menu"
    /\ Len(chain) = 2 /\ chain[1].type = "Click" /\ chain[2].type = "Sleep"

\* C10 (the claim as stated): when typst was started and has exited with a
\* non-zero status, print does not end with success; print ends with
\* success only when typst has succeeded.
C10_TypstFailureFails ==
    (config = "Print" /\ pc = "done" /\ log # <<>>) =>
      /\ log[1].status = "exit_nonzero" => exit # "ok"
      /\ exit = "ok" => log[1].status = "exit_ok"

\* The names of a table that map to the code c.
NamesOf(kc, c) == {n \in DOMAIN kc.codes : kc.codes[n] = c}

\* The codes looked up: those of the sample tables and two that no name has.
LookupCodes == {U32(1), U32(28), U32(29), U32(56), U32(111), U32(9999)}

\* C11: for the table built by KeyCodes::new and every code c,
\* reverse_lookup gives a name that maps to c and is lexicographically
\* smaller than every other name that maps to c, and gives None exactly when
\* no name maps to c; the names to_pdf writes for a PressKeys command are
\* these (with "<unknown key>" for None), the same for every occurrence of a
\* code.
C11_ReverseLookupSmallest ==
    (config = "Print" /\ key_codes # NoKeyCodes) =>
      /\ \A c \in LookupCodes :
           LET r == reverse_lookup(key_codes, c)
           IN  /\ r.some <=> NamesOf(key_codes, c) # {}
               /\ r.some =>
                    /\ r.v \in NamesOf(key_codes, c)
                    /\ \A n \in NamesOf(key_codes, c) \ {r.v} : StrLess(r.v, n)
      /\ \A k \in 1..Len(content) :
           chain[k].type = "PressKeys" =>
             \A j \in 1..Len(chain[k].keys) :
               LET names == NamesOf(key_codes, chain[k].keys[j])
                   name == content[k][2][j]
               IN  IF names = {} THEN name = UnknownKey
                   ELSE /\ name \in names
                        /\ \A n \in names \ {name} : StrLess(name, n)

\* to_pdf has written the names of the keys 29, 56, 111 with a table in
\* which three names map to 29 (the smallest is "left") and none to 111.
C11_Witness ==
    /\ config = "Print" /\ pc = "done" /\ exit = "ok"
    /\ Cardinality(NamesOf(key_codes, U32(29))) = 3
    /\ \E k \in 1..Len(content) :
         /\ chain[k].type = "PressKeys"
         /\ chain[k].keys = <<U32(29), U32(56), U32(111)>>
         /\ content[k][2] = <<<<108, 101, 102, 116>>,
                              <<108, 101, 102, 116, 97, 108, 116>>,
                              UnknownKey>>

\* C12: in the KeyCodes built by KeyCodes::new the name list is strictly
\* ascending and holds exactly the names of the map; get_num(i) is the code
\* of the i-th name (counted from 0) for every i below the length of the
\* list and None for every i at or above it.
C12_NamesSortedGetNum ==
    (config = "Record" /\ key_codes # NoKeyCodes) =>
      LET names == codes(key_codes)
      IN  /\ \A k \in 1..(Len(names) - 1) : StrLess(names[k], names[k + 1])
          /\ Range(names) = DOMAIN key_codes.codes
          /\ Len(names) = Cardinality(DOMAIN key_codes.codes)
          /\ \A index \in 0..(Len(names) - 1) :
               /\ get_num(key_codes, index).some
               /\ get_num(key_codes, index).v = key_codes.codes[names[index + 1]]
          /\ \A index \in Len(names)..(Len(names) + 2) :
               ~get_num(key_codes, index).some

\* With the table of four names "left" < "leftalt" < "leftctrl" < "zed" the
\* second and then the fourth name were picked.
C12_Witness ==
    /\ config = "Record" /\ pc = "keys"
    /\ Len(codes(key_codes)) = 4
    /\ codes(key_codes)[1] = <<108, 101, 102, 116>>
    /\ codes(key_codes)[4] = <<122, 101, 100>>
    /\ key_codes.codes[<<108, 101, 102, 116, 97, 108, 116>>] = U32(56)
    /\ keys = <<U32(56), U32(29)>>

\* a + floor(b / 2) as an integer of three 16-bit limbs (no wrap-around).
ExactCenter(a, b) ==
    LET half == <<b[1] \div 2, ((b[1] % 2) * 65536 + b[2]) \div 2>>
        lo == a[2] + half[2]
        hi == a[1] + half[1] + (lo \div 65536)
    IN  <<hi \div 65536, hi % 65536, lo % 65536>>

\* C13 (the claim as stated): for every rectangle, center() does not fail
\* and gives x + floor(width / 2), y + floor(height / 2) without wrap-around:
\* the step that clicks on the image a wait has matched does not panic, and
\* the pointer move it makes goes to exactly that position.
C13_CenterExact ==
    [][(Executing("WaitForImage") /\ phase = "matched") =>
         /\ exit' # "panic"
         /\ log' # log =>
              LET rect == chain[idx].location
                  args == log'[Len(log) + 1].args
              IN  /\ args[1] = "mousemove"
                  /\ <<0, args[4][1], args[4][2]>> = ExactCenter(rect.x, rect.width)
                  /\ <<0, args[6][1], args[6][2]>> = ExactCenter(rect.y, rect.height)]_vars

\* The ydotool call that moves the pointer to a position.
IsMoveTo(call, position) ==
    /\ call.exe = "ydotool"
    /\ call.args = <<"mousemove", "--absolute", "-x", position.x, "-y", position.y>>

IsPrimaryClick(call) == call.exe = "ydotool" /\ call.args = <<"click", "40", "80">>

\* C14: the step that executes Click{position} first moves the pointer to
\* position; when the move fails nothing else is issued and the command
\* fails; when it succeeds the click is issued next, and when the click
\* fails the command fails with the move still in the record of what was
\* done, and no later step moves the pointer anywhere else.
C14_ClickMovesThenClicks ==
    [][/\ (Executing("Click") /\ phase = "start") =>
            /\ Len(Added) >= 1
            /\ IsMoveTo(Added[1], chain[idx].position)
            /\ IF Added[1].status # "exit_ok"
               THEN Len(Added) = 1 /\ exit' = "err" /\ pc' = "drop"
               ELSE /\ Len(Added) = 2
                    /\ IsPrimaryClick(Added[2])
                    /\ IF Added[2].status # "exit_ok"
                       THEN exit' = "err" /\ pc' = "drop"
                       ELSE exit' = "running"
       /\ IsPrefix(log, log')
       /\ exit = "err" => log' = log]_vars

\* The move of a Click went through and its click failed.
C14_Witness ==
    /\ pc = "done" /\ exit = "err"
    /\ idx \in 1..Len(chain) /\ chain[idx].type = "Click"
    /\ Len(log) >= 2
    /\ IsMoveTo(log[Len(log) - 1], chain[idx].position)
    /\ log[Len(log) - 1].status = "exit_ok"
    /\ IsPrimaryClick(log[Len(log)])
    /\ log[Len(log)].status = "exit_nonzero"

\* C15 (the claim as stated): a WaitForImage command issues no ydotool call
\* while it is polling; it gets to its click only with `click` true and a
\* capture equal to the reference; whenever it has matched with `click`
\* true, the click step issues a move to location.center(), then (the move
\* having succeeded) one click, nothing else, and ends the command, so
\* there is one click for one match; with `click` false the command issues
\* no ydotool call at all.
C15_ClickAfterMatch ==
    [][Executing("WaitForImage") =>
         /\ phase \in {"start", "polling"} => log' = log
         /\ phase' = "matched" =>
              chain[idx].click /\ curr_image' = chain[idx].image
         /\ ~chain[idx].click => log' = log /\ phase' # "matched"
         /\ phase = "matched" =>
              /\ chain[idx].click /\ curr_image = chain[idx].image
              /\ phase' = "start"
              /\ (pc' # "exec" \/ idx' # idx)
              /\ Len(Added) \in {1, 2}
              /\ IsMoveTo(Added[1], center(chain[idx].location, overflow_checks).pos)
              /\ Len(Added) = 2 <=> Added[1].status = "exit_ok"
              /\ Len(Added) = 2 => IsPrimaryClick(Added[2])
              /\ exit' = "running" <=> AllOk(Added)]_vars

\* The code of the name at an index (from 0) of the list shown by the picker.
CodeOfPick(index) == key_codes.codes[codes(key_codes)[index + 1]]

\* C16: in the press-keys flow a pick appends the code of the name picked
\* to the keys accumulated and stays in the flow; the flow is left either by
\* an I/O error or by the finish signal, which appends one PressKeys command
\* whose keys are the codes of the names picked, in pick order (the empty
\* list when nothing was picked), and goes back to the menu.
C16_PressKeysFlow ==
    [][(config = "Record" /\ pc = "keys") =>
         /\ (pc' = "keys" \/ Len(picks') > Len(picks)) =>
              /\ Len(picks') = Len(picks) + 1
              /\ SubSeq(picks', 1, Len(picks)) = picks
              /\ keys' = Append(keys, CodeOfPick(picks'[Len(picks')]))
              /\ chain' = chain /\ pc' = "keys" /\ exit' = "running"
         /\ pc' # "keys" =>
              \/ /\ pc' = "done" /\ exit' = "err" /\ chain' = chain
              \/ /\ pc' = "menu" /\ exit' = "running"
                 /\ Len(chain') = Len(chain) + 1
                 /\ SubSeq(chain', 1, Len(chain)) = chain
                 /\ chain'[Len(chain')].type = "PressKeys"
                 /\ chain'[Len(chain')].keys =
                      [k \in 1..Len(picks) |-> CodeOfPick(picks[k])]
                 /\ Len(chain'[Len(chain')].keys) = Len(picks)]_vars

\* A PressKeys command without keys was committed, then one with the codes
\* of the second and the fourth name of the table of four names.
C16_Witness ==
    /\ config = "Record" /\ pc = "menu"
    /\ Len(chain) = 2
    /\ chain[1].type = "PressKeys" /\ chain[1].keys = <<>>
    /\ chain[2].type = "PressKeys" /\ chain[2].keys = <<U32(56), U32(29)>>
    /\ codes(key_codes)[2] = <<108, 101, 102, 116, 97, 108, 116>>
    /\ codes(key_codes)[4] = <<122, 101, 100>>

\* An input of the sleep prompt that is a finite number of seconds of
\* positive sign.
GoodSeconds(input) == input.ok /\ input.class = "num" /\ ~input.neg

\* C17 (the claim as stated): a round of the sleep prompt whose input does
\* not parse or is not a finite, non-negative number asks again, appending
\* nothing and not ending the recording; a round whose input is a finite,
\* non-negative number appends exactly one Sleep command and goes back to
\* the menu, for every such input (of a duration of that many seconds
\* wherever a Duration can hold them).
C17_SleepFlow ==
    [][(config = "Record" /\ pc = "sleep") =>
         IF GoodSeconds(secs_in')
         THEN /\ pc' = "menu" /\ exit' = "running"
              /\ Len(chain') = Len(chain) + 1
              /\ SubSeq(chain', 1, Len(chain)) = chain
              /\ chain'[Len(chain')].type = "Sleep"
              /\ ~secs_in'.huge =>
                   chain'[Len(chain')].duration =
                     [secs |-> secs_in'.secs, nanos |-> secs_in'.nanos]
         ELSE chain' = chain /\ pc' = "sleep" /\ exit' = "running"]_vars

\* C18: in a run of a command file that is malformed (not a chain document,
\* or a chain with a command that serde rejects or whose image is not base64
\* or not an image) no chain is loaded, no command is invoked, no process of
\* a command is run, no progress line is printed, and main ends with a
\* failure.
C18_MalformedLoadFails ==
    (config = "Run" /\ file \in MalformedFiles) =>
      /\ chain = <<>> /\ invoked = <<>> /\ log = <<>> /\ stdout = <<>>
      /\ pc \notin {"loop", "exec"}
      /\ exit # "ok"
      /\ pc = "done" => exit \in {"err", "panic"}

\* The run of a file with a well-formed shell command followed by a wait
\* whose image is base64 but not an image has ended.
C18_Witness ==
    /\ config = "Run" /\ pc = "done" /\ exit = "panic" /\ starts = 1
    /\ num_runs = 2
    /\ file \in MalformedFiles /\ file # InvalidFile
    /\ Kind(file.doc) = "obj" /\ Len(Value(file.doc)) = 1
    /\ Len(Value(Value(file.doc)[1][2])) = 2
    /\ DeCommand(Value(Value(file.doc)[1][2])[1]).res = "ok"
    /\ DeCommand(Value(Value(file.doc)[1][2])[2]).res = "panic"

\* C19: a step of `record` changes the command file only when the
\* recording loop has ended (the step that creates and writes it), a point
\* reached only from the menu through "exit run"; a step that ends the
\* recording with a fatal error or a panic leaves the file as it was.
C19_FileWrittenAfterExitRun ==
    [][config = "Record" =>
         /\ file' # file => pc = "write"
         /\ pc' = "write" => pc \in {"menu", "write"} /\ exit' = "running"
         /\ (pc # "write" /\ pc' = "done") =>
              file' = file /\ exit' \in {"err", "panic"}]_vars

\* A recording over an existing file ended with a fatal error after a
\* command had been recorded: the file still holds its previous chain.
C19_Witness ==
    /\ config = "Record" /\ pc = "done" /\ exit = "err"
    /\ Len(chain) = 1 /\ chain[1].type = "Click"
    /\ slurp_last = "exit_ok"
    /\ file = FileOf(SerChain(<<Shell("make")>>).v)
    /\ LoadFile(file).v # chain

\* C20: once a process of a command has failed, the run is ending with a
\* failure; and in every state of a run that is ending with a failure of a
\* command, the last invocation made is that of the failing command, in pass
\* p, 1 <= p <= N: nothing of pass p after it and nothing of a later pass
\* was invoked, and the progress lines printed are exactly 1/N .. p/N.
C20_FailureEndsRun ==
    config = "Run" =>
      /\ (~AllOk(log) \/ grim_last = "spawn_error") =>
           pc \in {"drop", "done"} /\ exit = "err"
      /\ (exit \in {"err", "panic"} /\ invoked # <<>>) =>
           LET last == invoked[Len(invoked)]
           IN  /\ pc \in {"drop", "done"}
               /\ last[1] >= 1 /\ last[1] <= num_runs
               /\ last[2] = idx
               /\ Len(invoked) = (last[1] - 1) * Len(chain) + idx
               /\ Len(stdout) = last[1]
               /\ \A j \in 1..last[1] : stdout[j] = <<j, num_runs>>

\* With two passes asked for, the first command of a chain of two failed in
\* the first pass.
C20_Witness ==
    /\ config = "Run" /\ pc = "done" /\ exit = "err"
    /\ num_runs = 2 /\ Len(chain) = 2
    /\ invoked = <<<<1, 1>>>> /\ stdout = <<<<1, 2>>>>
    /\ ~AllOk(log)

\* A WaitForImage command is being executed.
InWait == pc = "exec" /\ exit = "running" /\ Executing("WaitForImage")

\* A step of the polling loop whose capture succeeds and differs from the
\* reference image.
PollDiffers ==
    /\ InWait /\ phase \in {"start", "polling"}
    /\ grim_last' = "exit_ok"
    /\ curr_image' # chain[idx].image

\* Every step of the polling loop captures the reference image.
PollMatches ==
    (InWait /\ phase \in {"start", "polling"}) =>
      /\ grim_last' = "exit_ok" /\ exit' = "running"
      /\ curr_image' = chain[idx].image

\* C21: the polling loop has no timeout: while it polls, the only thing that
\* happens is a capture, and a capture that succeeds and differs from the
\* reference leaves the command where it is, in the same pass, with no
\* later command invoked, no process of a command run and no line printed;
\* and if from some point on every capture equals the reference, the
\* command does not stay in execution for ever.
C21_NoTimeout ==
    /\ [][/\ PollDiffers =>
               /\ InWait' /\ phase' = "polling"
               /\ idx' = idx /\ i' = i /\ stdout' = stdout /\ log' = log
               /\ invoked' = IF phase = "start" THEN Append(invoked, <<i, idx>>)
                             ELSE invoked
          /\ (InWait /\ phase = "polling") =>
               /\ grim_last' \in {"exit_ok", "exit_nonzero", "spawn_error"}
               /\ invoked' = invoked /\ log' = log /\ stdout' = stdout
               /\ \/ InWait' /\ idx' = idx /\ phase' = "polling"
                  \/ grim_last' = "exit_ok" /\ curr_image' = chain[idx].image
                  \/ grim_last' # "exit_ok" /\ exit' = "err"]_vars
    /\ (<>[][PollMatches]_vars) => []<>(~InWait)

\* The first command of a chain of two is a wait that has captured, an even
\* number of times (so at least twice), an image of the size of its reference with another pixel:
\* nothing else has happened.
C21_Witness ==
    /\ config = "Run" /\ InWait /\ idx = 1 /\ i = 1 /\ phase = "polling"
    /\ round = 0
    /\ Len(chain) = 2
    /\ chain[1].image = ImgA /\ curr_image = ImgB
    /\ invoked = <<<<1, 1>>>> /\ log = <<>> /\ stdout = <<<<1, num_runs>>>>

====
